---------------------------- MODULE Spec2Model ----------------------------
(***************************************************************************)
(* Model of 06-kafka-spark-streaming/app/data_processor.py: the validate,   *)
(* enrich and aggregate functions over user events, sensor readings and     *)
(* transactions.                                                            *)
(*                                                                          *)
(* A Python dict is a function from a finite set of key strings to values;  *)
(* dict objects live in a heap (a sequence, an object's reference is its    *)
(* index), so that aliasing and mutation of an argument are observable.     *)
(* A scalar value is a tagged record: a number, a string or a boolean.      *)
(* Numbers are exact multiples of 1/Scale; a boolean compares as 0 or 1,    *)
(* as Python's bool does, and comparing a string with a number raises       *)
(* TypeError.                                                               *)
(***************************************************************************)
EXTENDS Integers, Sequences, FiniteSets, TLC

VARIABLES
    heap,    \* the dict objects: heap[1] is the caller's record
    arg,     \* reference of the dict passed to the functions
    op,      \* the function called last ("none": no call outstanding)
    ret,     \* what that call returned, or that it raised
    before,  \* contents of the argument when the call was made
    clock,   \* the wall clock datetime.now() reads
    batch,   \* the list of records collected for aggregation
    agg,     \* the aggregate function called last ("none": no call outstanding)
    summary, \* what that call returned, or that it raised
    calls,   \* a call and its repetition on an equal input
    threads, \* the call each thread is in, with its local variables
    flow,    \* the run of the data_pipeline flow
    producer, \* the run of produce_data, with the messages it has sent
    pipeline \* a batch of readings on its way through validate, enrich, aggregate

recordVars == <<heap, arg, op, ret, before, clock>>
batchVars == <<batch, agg, summary>>
vars == <<recordVars, batchVars, calls, threads, flow, producer, pipeline>>
\* What a call on a single record leaves alone, and what an aggregation does.
otherThanRecord == <<batchVars, calls, threads, flow, producer, pipeline>>
otherThanBatch == <<recordVars, calls, threads, flow, producer, pipeline>>

\* Largest clock value; the clock only matters through processed_at.
MaxClock == 1

-----------------------------------------------------------------------------
(* Scalar values *)

\* Numbers are held in units of 1/200, so that hundredths and their halves
\* (0.5 * humidity) are exact.
Scale == 2 * 100

Num(n) == [t |-> "num", n |-> n, s |-> ""]
Str(s) == [t |-> "str", n |-> 0, s |-> s]
Bool(b) == [t |-> "bool", n |-> IF b THEN Scale ELSE 0, s |-> ""]

\* No value: the mark of a key that is not in a dict.
Absent == [t |-> "absent", n |-> 0, s |-> ""]

\* The integer literal k of the source.
Lit(k) == Num(k * Scale)
\* The decimal whole.hundredths, e.g. Dec(49, 99) is 49.99.
Dec(whole, hundredths) == Num(whole * Scale + hundredths * 2)

\* Python orders int, float and bool among themselves; ordering a str against
\* a number raises TypeError.
IsNumber(v) == v.t \in {"num", "bool"}
\* Python truthiness of a scalar (the filter of line 151).
Truthy(v) == IF v.t = "str" THEN v.s # "" ELSE v.n # 0

-----------------------------------------------------------------------------
(* float addition.  A float holds Precision significant bits; the result of  *)
(* an addition is the float nearest to the exact sum, the one with the even  *)
(* significand when two are equally near.                                    *)

\* Bits of the significand of a float: 53 in CPython, fewer here, so that
\* numbers that fill the significand stay small.
Precision == 21

\* The distance between neighbouring floats of magnitude m (m in units of
\* 1/Scale): 1 below 2^Precision, doubling with every further bit.
RECURSIVE Spacing(_)
Spacing(m) == IF m < 2 ^ Precision THEN 1 ELSE 2 * Spacing(m \div 2)

\* The float nearest to x.
Nearest(x) ==
    LET m == IF x < 0 THEN 0 - x ELSE x
        q == Spacing(m)
        below == (m \div q) * q
        rest == m - below
        near == IF 2 * rest < q THEN below
                ELSE IF 2 * rest > q THEN below + q
                ELSE IF (below \div q) % 2 = 0 THEN below ELSE below + q
    IN  IF x < 0 THEN 0 - near ELSE near

\* a + b on floats, in units of 1/Scale
float_add(a, b) == Nearest(a + b)

-----------------------------------------------------------------------------
(* dict operations *)

EmptyDict == [k \in {} |-> Lit(0)]

\* d[k] = v
SetItem(d, k, v) == [x \in DOMAIN d \cup {k} |-> IF x = k THEN v ELSE d[x]]

\* d.get(k, default)
Get(d, k, default) == IF k \in DOMAIN d THEN d[k] ELSE default

\* all(field in data for field in required_fields)
HasAll(d, required_fields) == \A field \in required_fields : field \in DOMAIN d

\* heap[r][k] = v on the object r
HeapSet(h, r, k, v) == [h EXCEPT ![r] = SetItem(@, k, v)]

\* A mutation of data.copy(): the same object is returned, no copy is made.
DictAlias(h, r) == [heap |-> h, ref |-> r]

\* A mutation of data.copy(): a new, empty dict is returned.
DictEmpty(h, r) == [heap |-> Append(h, EmptyDict), ref |-> Len(h) + 1]

\* data.copy(): a new dict object with the same keys and values.
DictCopy(h, r) == [heap |-> Append(h, h[r]), ref |-> Len(h) + 1]

\* datetime.now().isoformat(): the clock reading as an ISO-8601 string.
isoformat(now) == "2024-01-01T00:00:0" \o ToString(now)

-----------------------------------------------------------------------------
(* What a call gives back *)

Returned(b) == [kind |-> "bool", b |-> b, ref |-> 0]
ReturnedRef(r) == [kind |-> "ref", b |-> FALSE, ref |-> r]
Raised == [kind |-> "raise", b |-> FALSE, ref |-> 0]
NoReturn == [kind |-> "none", b |-> FALSE, ref |-> 0]

-----------------------------------------------------------------------------
(* Validators *)

\* A mutation of validate_user_event: timestamp is left out of the required fields.
validate_user_event_two(data) ==
    Returned(HasAll(data, {"user_id", "event_type"}))

validate_user_event(data) ==
    Returned(HasAll(data, {"user_id", "event_type", "timestamp"}))

\* A mutation of validate_sensor_data: the upper temperature bound is strict.
validate_sensor_data_strict(data) ==
    IF ~HasAll(data, {"sensor_id", "temperature", "humidity", "pressure", "timestamp"})
    THEN Returned(FALSE)
    ELSE IF ~IsNumber(data["temperature"]) THEN Raised
    ELSE IF ~(0 <= data["temperature"].n /\ data["temperature"].n < 50 * Scale)
    THEN Returned(FALSE)
    ELSE IF ~IsNumber(data["humidity"]) THEN Raised
    ELSE IF ~(0 <= data["humidity"].n /\ data["humidity"].n <= 100 * Scale)
    THEN Returned(FALSE)
    ELSE Returned(TRUE)

validate_sensor_data(data) ==
    IF ~HasAll(data, {"sensor_id", "temperature", "humidity", "pressure", "timestamp"})
    THEN Returned(FALSE)
    ELSE IF ~IsNumber(data["temperature"]) THEN Raised
    ELSE IF ~(0 <= data["temperature"].n /\ data["temperature"].n <= 50 * Scale)
    THEN Returned(FALSE)
    ELSE IF ~IsNumber(data["humidity"]) THEN Raised
    ELSE IF ~(0 <= data["humidity"].n /\ data["humidity"].n <= 100 * Scale)
    THEN Returned(FALSE)
    ELSE Returned(TRUE)

\* A mutation of validate_transaction: amount 0 is let through.
validate_transaction_zero(data) ==
    IF ~HasAll(data, {"transaction_id", "user_id", "amount", "currency", "timestamp"})
    THEN Returned(FALSE)
    ELSE IF ~IsNumber(data["amount"]) THEN Raised
    ELSE IF data["amount"].n < 0 THEN Returned(FALSE)
    ELSE IF data["currency"] \notin {Str("USD"), Str("EUR"), Str("GBP")}
    THEN Returned(FALSE)
    ELSE Returned(TRUE)

validate_transaction(data) ==
    IF ~HasAll(data, {"transaction_id", "user_id", "amount", "currency", "timestamp"})
    THEN Returned(FALSE)
    ELSE IF ~IsNumber(data["amount"]) THEN Raised
    ELSE IF data["amount"].n <= 0 THEN Returned(FALSE)
    ELSE IF data["currency"] \notin {Str("USD"), Str("EUR"), Str("GBP")}
    THEN Returned(FALSE)
    ELSE Returned(TRUE)

-----------------------------------------------------------------------------
(* Enrichers.  Each takes the heap, the reference of its argument and the    *)
(* clock reading, and gives the heap it leaves behind and what it returns.   *)

\* A mutation of user_segment: the premium boundary is strict.
user_segment_strict(user_id) ==
    IF user_id.n < 100 * Scale THEN Str("premium")
    ELSE IF user_id.n <= 500 * Scale THEN Str("regular")
    ELSE Str("new")

\* Lines 51-56: the segment of a numeric user_id.
user_segment(user_id) ==
    IF user_id.n <= 100 * Scale THEN Str("premium")
    ELSE IF user_id.n <= 500 * Scale THEN Str("regular")
    ELSE Str("new")

\* A mutation of enrich_user_event: data_source carries the clock reading too.
enrich_user_event_timed(h, data, now) ==
    LET c  == DictCopy(h, data)
        enriched == c.ref
        h1 == HeapSet(c.heap, enriched, "processed_at", Str(isoformat(now)))
        h2 == HeapSet(h1, enriched, "data_source",
                      Str("kafka_stream@" \o isoformat(now)))
        user_id == Get(h2[data], "user_id", Lit(0))
    IN  IF ~IsNumber(user_id) THEN [heap |-> h2, ret |-> Raised]
        ELSE [heap |-> HeapSet(h2, enriched, "user_segment", user_segment(user_id)),
              ret |-> ReturnedRef(enriched)]

enrich_user_event(h, data, now) ==
    LET c  == DictCopy(h, data)
        enriched == c.ref
        h1 == HeapSet(c.heap, enriched, "processed_at", Str(isoformat(now)))
        h2 == HeapSet(h1, enriched, "data_source", Str("kafka_stream"))
        user_id == Get(h2[data], "user_id", Lit(0))
    IN  IF ~IsNumber(user_id) THEN [heap |-> h2, ret |-> Raised]
        ELSE [heap |-> HeapSet(h2, enriched, "user_segment", user_segment(user_id)),
              ret |-> ReturnedRef(enriched)]

\* A mutation of heat_index: the humidity term is added whenever it is hot.
heat_index_always(temperature, humidity) ==
    IF temperature.n > 27 * Scale
    THEN Num(temperature.n + humidity.n \div 2)
    ELSE temperature

\* Lines 71-74, both operands numeric; 0.5 * humidity is humidity.n \div 2,
\* exact because every number is a whole count of hundredths.
heat_index(temperature, humidity) ==
    IF temperature.n > 27 * Scale /\ humidity.n > 40 * Scale
    THEN Num(temperature.n + humidity.n \div 2)
    ELSE temperature

\* A mutation of temperature_alert: the thresholds are inclusive.
temperature_alert_inclusive(temperature) ==
    Bool(temperature.n >= 35 * Scale \/ temperature.n <= 5 * Scale)

\* Line 77.
temperature_alert(temperature) ==
    Bool(temperature.n > 35 * Scale \/ temperature.n < 5 * Scale)

\* Line 78.
humidity_alert(humidity) ==
    Bool(humidity.n > 90 * Scale \/ humidity.n < 10 * Scale)

\* A mutation of enrich_sensor_data: temperature_alert is not written.
enrich_sensor_data_no_alert(h, data, now) ==
    LET c  == DictCopy(h, data)
        enriched == c.ref
        h1 == HeapSet(c.heap, enriched, "processed_at", Str(isoformat(now)))
        h2 == HeapSet(h1, enriched, "data_source", Str("kafka_stream"))
        temperature == Get(h2[data], "temperature", Lit(0))
        humidity == Get(h2[data], "humidity", Lit(0))
        h3 == HeapSet(h2, enriched, "heat_index",
                      IF IsNumber(humidity) THEN heat_index(temperature, humidity)
                      ELSE temperature)
    IN  IF ~IsNumber(temperature) THEN [heap |-> h2, ret |-> Raised]
        ELSE IF temperature.n > 27 * Scale /\ ~IsNumber(humidity)
        THEN [heap |-> h2, ret |-> Raised]
        ELSE IF ~IsNumber(humidity) THEN [heap |-> h3, ret |-> Raised]
        ELSE [heap |-> HeapSet(h3, enriched, "humidity_alert", humidity_alert(humidity)),
              ret |-> ReturnedRef(enriched)]

\* A mutation of enrich_sensor_data: the heat index is written over the
\* temperature as well.
enrich_sensor_data_overwriting(h, data, now) ==
    LET c  == DictCopy(h, data)
        enriched == c.ref
        h1 == HeapSet(c.heap, enriched, "processed_at", Str(isoformat(now)))
        h2 == HeapSet(h1, enriched, "data_source", Str("kafka_stream"))
        temperature == Get(h2[data], "temperature", Lit(0))
        humidity == Get(h2[data], "humidity", Lit(0))
        heat == IF IsNumber(humidity) THEN heat_index(temperature, humidity)
                ELSE temperature
        h3 == HeapSet(HeapSet(h2, enriched, "heat_index", heat),
                      enriched, "temperature", heat)
        h4 == HeapSet(h3, enriched, "temperature_alert", temperature_alert(temperature))
    IN  IF ~IsNumber(temperature) THEN [heap |-> h2, ret |-> Raised]
        ELSE IF temperature.n > 27 * Scale /\ ~IsNumber(humidity)
        THEN [heap |-> h2, ret |-> Raised]
        ELSE IF ~IsNumber(humidity) THEN [heap |-> h4, ret |-> Raised]
        ELSE [heap |-> HeapSet(h4, enriched, "humidity_alert", humidity_alert(humidity)),
              ret |-> ReturnedRef(enriched)]

enrich_sensor_data(h, data, now) ==
    LET c  == DictCopy(h, data)
        enriched == c.ref
        h1 == HeapSet(c.heap, enriched, "processed_at", Str(isoformat(now)))
        h2 == HeapSet(h1, enriched, "data_source", Str("kafka_stream"))
        temperature == Get(h2[data], "temperature", Lit(0))
        humidity == Get(h2[data], "humidity", Lit(0))
        \* line 71 compares humidity only when temperature > 27 holds
        h3 == HeapSet(h2, enriched, "heat_index",
                      IF IsNumber(humidity) THEN heat_index(temperature, humidity)
                      ELSE temperature)
        h4 == HeapSet(h3, enriched, "temperature_alert", temperature_alert(temperature))
    IN  IF ~IsNumber(temperature) THEN [heap |-> h2, ret |-> Raised]
        ELSE IF temperature.n > 27 * Scale /\ ~IsNumber(humidity)
        THEN [heap |-> h2, ret |-> Raised]
        ELSE IF ~IsNumber(humidity) THEN [heap |-> h4, ret |-> Raised]
        ELSE [heap |-> HeapSet(h4, enriched, "humidity_alert", humidity_alert(humidity)),
              ret |-> ReturnedRef(enriched)]

\* A mutation of transaction_category: the small bucket includes 50.
transaction_category_inclusive(amount) ==
    IF amount.n <= 50 * Scale THEN Str("small")
    ELSE IF amount.n < 200 * Scale THEN Str("medium")
    ELSE Str("large")

\* A mutation of transaction_category: the medium bucket reaches up to 2000.
transaction_category_wide(amount) ==
    IF amount.n < 50 * Scale THEN Str("small")
    ELSE IF amount.n < 2000 * Scale THEN Str("medium")
    ELSE Str("large")

\* Lines 91-96.
transaction_category(amount) ==
    IF amount.n < 50 * Scale THEN Str("small")
    ELSE IF amount.n < 200 * Scale THEN Str("medium")
    ELSE Str("large")

\* A mutation of fraud_risk: the high bucket includes 1000.
fraud_risk_inclusive(amount) ==
    IF amount.n >= 1000 * Scale THEN Str("high")
    ELSE IF amount.n > 500 * Scale THEN Str("medium")
    ELSE Str("low")

\* Lines 99-104.
fraud_risk(amount) ==
    IF amount.n > 1000 * Scale THEN Str("high")
    ELSE IF amount.n > 500 * Scale THEN Str("medium")
    ELSE Str("low")

\* A mutation of enrich_transaction: the amount is read as data['amount'],
\* which raises KeyError on a record without amount.
enrich_transaction_unguarded(h, data, now) ==
    LET c  == DictCopy(h, data)
        enriched == c.ref
        h1 == HeapSet(c.heap, enriched, "processed_at", Str(isoformat(now)))
        h2 == HeapSet(h1, enriched, "data_source", Str("kafka_stream"))
        amount == Get(h2[data], "amount", Str("KeyError"))
    IN  IF ~IsNumber(amount) THEN [heap |-> h2, ret |-> Raised]
        ELSE [heap |-> HeapSet(HeapSet(h2, enriched, "transaction_category",
                                       transaction_category(amount)),
                               enriched, "fraud_risk", fraud_risk(amount)),
              ret |-> ReturnedRef(enriched)]

enrich_transaction(h, data, now) ==
    LET c  == DictCopy(h, data)
        enriched == c.ref
        h1 == HeapSet(c.heap, enriched, "processed_at", Str(isoformat(now)))
        h2 == HeapSet(h1, enriched, "data_source", Str("kafka_stream"))
        amount == Get(h2[data], "amount", Lit(0))
    IN  IF ~IsNumber(amount) THEN [heap |-> h2, ret |-> Raised]
        ELSE [heap |-> HeapSet(HeapSet(h2, enriched, "transaction_category",
                                       transaction_category(amount)),
                               enriched, "fraud_risk", fraud_risk(amount)),
              ret |-> ReturnedRef(enriched)]

-----------------------------------------------------------------------------
(* Aggregators.  A list is a sequence of dicts.  A count is a plain natural  *)
(* number, a sum a number value, and a quotient a / b the pair Ratio(a, b)   *)
(* of a (in units of 1/Scale for a sum, plain for a count) and the count b,  *)
(* so that the division itself is not rounded; the additions that make a    *)
(* sum are float additions.  sum(), max() and min() raise TypeError on a     *)
(* list that holds a str beside numbers.                                     *)

ReturnedDict(d) == [kind |-> "dict", value |-> d]
RaisedError == [kind |-> "raise", value |-> EmptyDict]
NotCalled == [kind |-> "none", value |-> EmptyDict]

\* a / b
Ratio(a, b) == [num |-> a, den |-> b]

\* A mutation of Column: r[field] without a default; a missing key leaves no
\* number in the list.
ColumnUnguarded(records, field) ==
    [i \in 1..Len(records) |->
        IF field \in DOMAIN records[i] THEN records[i][field] ELSE Absent]

\* [r.get(field, 0) for r in records]
Column(records, field) == [i \in 1..Len(records) |-> Get(records[i], field, Lit(0))]

AllNumbers(values) == \A i \in 1..Len(values) : IsNumber(values[i])

\* sum(values), in units of 1/Scale: the values are added from the left,
\* each addition giving a float
RECURSIVE SumN(_)
SumN(values) ==
    IF values = <<>> THEN 0
    ELSE float_add(SumN(SubSeq(values, 1, Len(values) - 1)), values[Len(values)].n)

\* A mutation of Min: the first element, values[0], in place of min(values).
Min_first(values) == values[1]

\* max(values) and min(values): the first of the largest (smallest) elements
Max(values) ==
    values[CHOOSE i \in 1..Len(values) :
               /\ \A j \in 1..Len(values) : values[j].n <= values[i].n
               /\ \A j \in 1..(i - 1) : values[j].n < values[i].n]
Min(values) ==
    values[CHOOSE i \in 1..Len(values) :
               /\ \A j \in 1..Len(values) : values[j].n >= values[i].n
               /\ \A j \in 1..(i - 1) : values[j].n > values[i].n]

\* Lines 116-126: the loop over the first n events; event_types counts the
\* events of each type, user_activity lists the event types of each user.
RECURSIVE user_events_loop(_, _)
user_events_loop(events, n) ==
    IF n = 0 THEN [event_types |-> EmptyDict, user_activity |-> EmptyDict]
    ELSE LET acc == user_events_loop(events, n - 1)
             event == events[n]
             event_type == Get(event, "event_type", Str("unknown"))
             user_id == Get(event, "user_id", Lit(0))
         IN  [event_types |->
                  SetItem(acc.event_types, event_type,
                          Get(acc.event_types, event_type, 0) + 1),
              user_activity |->
                  SetItem(acc.user_activity, user_id,
                          Append(Get(acc.user_activity, user_id, <<>>), event_type))]

\* A mutation of aggregate_user_events: active users are counted per event.
aggregate_user_events_per_event(events) ==
    IF events = <<>> THEN ReturnedDict(EmptyDict)
    ELSE LET acc == user_events_loop(events, Len(events))
         IN  ReturnedDict(
                 [total_events |-> Len(events),
                  event_type_counts |-> acc.event_types,
                  active_users |-> Len(events),
                  avg_events_per_user |-> Ratio(Len(events), Len(events))])

\* A mutation of aggregate_user_events: only events that have a user_id are
\* tracked in user_activity.
aggregate_user_events_known_users(events) ==
    IF events = <<>> THEN ReturnedDict(EmptyDict)
    ELSE LET acc == user_events_loop(events, Len(events))
             user_activity == [u \in {Get(events[i], "user_id", Absent) :
                                         i \in 1..Len(events)} \ {Absent} |->
                                  acc.user_activity[u]]
         IN  ReturnedDict(
                 [total_events |-> Len(events),
                  event_type_counts |-> acc.event_types,
                  active_users |-> Cardinality(DOMAIN user_activity),
                  avg_events_per_user |->
                      IF DOMAIN user_activity # {}
                      THEN Ratio(Len(events), Cardinality(DOMAIN user_activity))
                      ELSE Ratio(0, 1)])

aggregate_user_events(events) ==
    IF events = <<>> THEN ReturnedDict(EmptyDict)
    ELSE LET acc == user_events_loop(events, Len(events))
             user_activity == acc.user_activity
         IN  ReturnedDict(
                 [total_events |-> Len(events),
                  event_type_counts |-> acc.event_types,
                  active_users |-> Cardinality(DOMAIN user_activity),
                  avg_events_per_user |->
                      IF DOMAIN user_activity # {}
                      THEN Ratio(Len(events), Cardinality(DOMAIN user_activity))
                      ELSE Ratio(0, 1)])

\* A mutation of alerts: the alert is computed anew from the temperature.
alerts_recomputed(sensor_readings) ==
    Cardinality({i \in 1..Len(sensor_readings) :
                    Truthy(temperature_alert(Get(sensor_readings[i], "temperature", Lit(0))))})

\* Line 151: len([r for r in sensor_readings if r.get('temperature_alert', False)])
alerts(sensor_readings) ==
    Cardinality({i \in 1..Len(sensor_readings) :
                    Truthy(Get(sensor_readings[i], "temperature_alert", Bool(FALSE)))})

\* A mutation of aggregate_sensor_data: the guard for an empty list is missing,
\* so that the first division is by zero.
aggregate_sensor_data_unguarded(sensor_readings) ==
    LET temperatures == Column(sensor_readings, "temperature")
        humidities == Column(sensor_readings, "humidity")
        pressures == Column(sensor_readings, "pressure")
    IN  IF ~AllNumbers(temperatures \o humidities \o pressures) THEN RaisedError
        ELSE IF Len(temperatures) = 0 THEN RaisedError
        ELSE ReturnedDict(
                 [total_readings |-> Len(sensor_readings),
                  avg_temperature |-> Ratio(SumN(temperatures), Len(temperatures)),
                  avg_humidity |-> Ratio(SumN(humidities), Len(humidities)),
                  avg_pressure |-> Ratio(SumN(pressures), Len(pressures)),
                  max_temperature |-> Max(temperatures),
                  min_temperature |-> Min(temperatures),
                  alerts |-> alerts(sensor_readings)])

\* A mutation of aggregate_sensor_data: max and min are taken of the humidities.
aggregate_sensor_data_wrong_column(sensor_readings) ==
    IF sensor_readings = <<>> THEN ReturnedDict(EmptyDict)
    ELSE LET r == aggregate_sensor_data_unguarded(sensor_readings)
             humidities == Column(sensor_readings, "humidity")
         IN  IF r.kind = "raise" THEN r
             ELSE ReturnedDict([r.value EXCEPT !.max_temperature = Max(humidities),
                                               !.min_temperature = Min(humidities)])

aggregate_sensor_data(sensor_readings) ==
    IF sensor_readings = <<>> THEN ReturnedDict(EmptyDict)
    ELSE LET temperatures == Column(sensor_readings, "temperature")
             humidities == Column(sensor_readings, "humidity")
             pressures == Column(sensor_readings, "pressure")
         IN  IF ~AllNumbers(temperatures \o humidities \o pressures) THEN RaisedError
             ELSE ReturnedDict(
                      [total_readings |-> Len(sensor_readings),
                       avg_temperature |-> Ratio(SumN(temperatures), Len(temperatures)),
                       avg_humidity |-> Ratio(SumN(humidities), Len(humidities)),
                       avg_pressure |-> Ratio(SumN(pressures), Len(pressures)),
                       max_temperature |-> Max(temperatures),
                       min_temperature |-> Min(temperatures),
                       alerts |-> alerts(sensor_readings)])

\* Lines 163-168: the loop over the first n transactions; currencies sums the
\* amounts of each currency, merchants counts the transactions of each merchant.
RECURSIVE transactions_loop(_, _)
transactions_loop(transactions, n) ==
    IF n = 0 THEN [currencies |-> EmptyDict, merchants |-> EmptyDict]
    ELSE LET acc == transactions_loop(transactions, n - 1)
             transaction == transactions[n]
             currency == Get(transaction, "currency", Str("unknown"))
             merchant == Get(transaction, "merchant", Str("unknown"))
         IN  [currencies |->
                  SetItem(acc.currencies, currency,
                          Num(float_add(Get(acc.currencies, currency, Lit(0)).n,
                                        Get(transaction, "amount", Lit(0)).n))),
              merchants |->
                  SetItem(acc.merchants, merchant, Get(acc.merchants, merchant, 0) + 1)]

\* A mutation of aggregate_transactions: the currency totals count the
\* transactions instead of summing their amounts.
aggregate_transactions_counting(transactions) ==
    IF transactions = <<>> THEN ReturnedDict(EmptyDict)
    ELSE LET amounts == Column(transactions, "amount")
             acc == transactions_loop(transactions, Len(transactions))
         IN  IF ~AllNumbers(amounts) THEN RaisedError
             ELSE ReturnedDict(
                      [total_transactions |-> Len(transactions),
                       total_amount |-> Num(SumN(amounts)),
                       avg_amount |-> Ratio(SumN(amounts), Len(amounts)),
                       currency_totals |->
                           [c \in DOMAIN acc.currencies |->
                               Lit(Cardinality({i \in 1..Len(transactions) :
                                   Get(transactions[i], "currency", Str("unknown")) = c}))],
                       merchant_counts |-> acc.merchants,
                       max_transaction |-> Max(amounts),
                       min_transaction |-> Min(amounts)])

\* A mutation of aggregate_transactions: a transaction without merchant is
\* not counted under any merchant.
aggregate_transactions_named_merchants(transactions) ==
    IF transactions = <<>> THEN ReturnedDict(EmptyDict)
    ELSE LET amounts == Column(transactions, "amount")
             acc == transactions_loop(transactions, Len(transactions))
         IN  IF ~AllNumbers(amounts) THEN RaisedError
             ELSE ReturnedDict(
                      [total_transactions |-> Len(transactions),
                       total_amount |-> Num(SumN(amounts)),
                       avg_amount |-> Ratio(SumN(amounts), Len(amounts)),
                       currency_totals |-> acc.currencies,
                       merchant_counts |->
                           [m \in DOMAIN acc.merchants \ {Str("unknown")} |->
                               acc.merchants[m]],
                       max_transaction |-> Max(amounts),
                       min_transaction |-> Min(amounts)])

aggregate_transactions(transactions) ==
    IF transactions = <<>> THEN ReturnedDict(EmptyDict)
    ELSE LET amounts == Column(transactions, "amount")
             acc == transactions_loop(transactions, Len(transactions))
         IN  IF ~AllNumbers(amounts) THEN RaisedError
             ELSE ReturnedDict(
                      [total_transactions |-> Len(transactions),
                       total_amount |-> Num(SumN(amounts)),
                       avg_amount |-> Ratio(SumN(amounts), Len(amounts)),
                       currency_totals |-> acc.currencies,
                       merchant_counts |-> acc.merchants,
                       max_transaction |-> Max(amounts),
                       min_transaction |-> Min(amounts)])

-----------------------------------------------------------------------------
(* The records the functions are called on.  Every field is either absent   *)
(* or takes one of a few values around the thresholds of the source,        *)
(* including values of an unexpected scalar type.                           *)

\* The dict holding the fields of f that are not Absent.
MakeDict(f) == [k \in {x \in DOMAIN f : f[x] # Absent} |-> f[k]]

Timestamps == {Absent, Str("2024-01-01T00:00:00")}

UserIds == {Absent, Lit(100), Lit(101), Lit(500), Lit(501), Str("u7"), Bool(TRUE)}

UserEvents ==
    { MakeDict(f) : f \in [user_id : UserIds,
                           event_type : {Absent, Str("click")},
                           timestamp : Timestamps,
                           page_url : {Absent, Str("/page/1")}] }

Temperatures ==
    {Absent, Dec(-1, 99), Lit(0), Dec(4, 99), Lit(5), Lit(10), Lit(27), Dec(27, 1),
     Lit(30), Lit(35), Dec(35, 1), Lit(50), Dec(50, 10), Str("hot")}
Humidities ==
    {Absent, Dec(-1, 99), Lit(0), Dec(9, 99), Lit(10), Lit(20), Lit(40), Dec(40, 1),
     Lit(50), Lit(90), Dec(90, 1), Lit(100), Dec(100, 1), Str("wet")}
\* The values every value of the other field is combined with.
SomeTemperatures == {Absent, Lit(10), Lit(27), Dec(27, 1), Lit(30), Str("hot")}
SomeHumidities == {Absent, Lit(20), Lit(40), Dec(40, 1), Lit(50), Str("wet")}
Pressures == {Dec(1013, 25), Lit(-5), Str("high")}

SensorReadings ==
    { MakeDict(f) : f \in
        { g \in [sensor_id : {Absent, Str("sensor_1")},
                 temperature : Temperatures,
                 humidity : Humidities,
                 pressure : Pressures \cup {Absent},
                 timestamp : Timestamps] :
            \* every field varied over all its values, two at a time at most
            \/ /\ g.sensor_id # Absent /\ g.timestamp # Absent
               /\ g.pressure \in {Dec(1013, 25), Lit(-5)}
               /\ g.temperature \in SomeTemperatures \/ g.humidity \in SomeHumidities
            \/ /\ g.temperature = Lit(30) /\ g.humidity = Lit(50) } }

Amounts ==
    {Absent, Lit(-1), Lit(0), Dec(0, 1), Dec(49, 99), Lit(50), Dec(199, 99), Lit(200),
     Lit(500), Dec(500, 1), Lit(1000), Dec(1000, 1), Lit(1500), Str("12.5")}
Currencies == {Absent, Str("USD"), Str("EUR"), Str("GBP"), Str("JPY"), Str("usd"), Lit(5)}

Transactions ==
    { MakeDict(f) : f \in
        { g \in [transaction_id : {Absent, Str("txn_10000")},
                 user_id : {Absent, Lit(7)},
                 amount : Amounts,
                 currency : Currencies,
                 merchant : {Absent, Str("merchant_1")},
                 timestamp : Timestamps] :
            \/ /\ g.transaction_id # Absent /\ g.user_id # Absent /\ g.timestamp # Absent
               /\ g.currency \in {Str("USD"), Str("JPY")} \/ g.amount \in {Lit(100), Lit(0)}
            \/ /\ g.amount = Lit(100) /\ g.currency = Str("EUR") /\ g.merchant # Absent } }

Records == UserEvents \cup SensorReadings \cup Transactions

-----------------------------------------------------------------------------
(* The state machine: a caller holding one record calls the functions on it, *)
(* one call at a time, may change a returned record, hand it on as the       *)
(* next argument, or drop it.                                                *)

\* How many times an enriched record is handed on to a further call.
MaxHops == 1

Validators == {"validate_user_event", "validate_sensor_data", "validate_transaction"}
Enrichers == {"enrich_user_event", "enrich_sensor_data", "enrich_transaction"}

Init ==
    /\ \E r \in Records : heap = <<r>> /\ before = r
    /\ arg = 1
    /\ op = "none"
    /\ ret = NoReturn
    /\ clock = 0
    /\ batch = <<>> /\ agg = "none" /\ summary = NotCalled
    /\ calls = <<>> /\ threads = <<>> /\ flow = <<>>
    /\ producer = <<>> /\ pipeline = <<>>

\* A validator is called on the argument: nothing but the return value changes.
CallValidate(name, result) ==
    /\ op = "none"
    /\ op' = name
    /\ ret' = result
    /\ before' = heap[arg]
    /\ UNCHANGED <<heap, arg, clock, otherThanRecord>>

\* An enricher is called on the argument, which reads the clock.
CallEnrich(name, result) ==
    /\ op = "none"
    /\ op' = name
    /\ heap' = result.heap
    /\ ret' = result.ret
    /\ before' = heap[arg]
    /\ UNCHANGED <<arg, clock, otherThanRecord>>

ValidateUserEvent == CallValidate("validate_user_event", validate_user_event(heap[arg]))
ValidateSensorData == CallValidate("validate_sensor_data", validate_sensor_data(heap[arg]))
ValidateTransaction == CallValidate("validate_transaction", validate_transaction(heap[arg]))
EnrichUserEvent == CallEnrich("enrich_user_event", enrich_user_event(heap, arg, clock))
EnrichSensorData == CallEnrich("enrich_sensor_data", enrich_sensor_data(heap, arg, clock))
EnrichTransaction == CallEnrich("enrich_transaction", enrich_transaction(heap, arg, clock))

\* The caller changes the record an enricher returned.
CallerUpdate ==
    /\ op \in Enrichers
    /\ ret.kind = "ref"
    /\ heap' = HeapSet(heap, ret.ref, "data_source", Str("caller"))
    /\ op' = "updated"
    /\ UNCHANGED <<arg, ret, before, clock, otherThanRecord>>

\* The caller hands the enriched record on: it is the argument of the next call.
Forward ==
    /\ op \in Enrichers
    /\ ret.kind = "ref"
    /\ arg <= MaxHops
    /\ arg' = ret.ref
    /\ heap' = SubSeq(heap, 1, ret.ref)
    /\ before' = heap[ret.ref]
    /\ op' = "none"
    /\ ret' = NoReturn
    /\ UNCHANGED <<clock, otherThanRecord>>

\* The caller is done with the call and drops what it returned.
Release ==
    /\ op # "none"
    /\ heap' = SubSeq(heap, 1, arg)
    /\ before' = heap[arg]
    /\ op' = "none"
    /\ ret' = NoReturn
    /\ UNCHANGED <<arg, clock, otherThanRecord>>

\* Time passes.
Tick ==
    /\ clock < MaxClock
    /\ clock' = clock + 1
    /\ UNCHANGED <<heap, arg, op, ret, before, otherThanRecord>>

Next ==
    \/ ValidateUserEvent
    \/ ValidateSensorData
    \/ ValidateTransaction
    \/ EnrichUserEvent
    \/ EnrichSensorData
    \/ EnrichTransaction
    \/ CallerUpdate
    \/ Forward
    \/ Release
    \/ Tick

Spec == Init /\ [][Next]_vars

TypeOK ==
    /\ arg \in 1..Len(heap)
    /\ op \in Validators \cup Enrichers \cup {"none", "updated"}
    /\ clock \in 0..MaxClock
    /\ ret.kind \in {"none", "bool", "ref", "raise"}

-----------------------------------------------------------------------------
(* The aggregation machine: a caller collects records into a list and calls *)
(* the aggregate functions on it, one call at a time.  The records are of    *)
(* the three kinds, some with fields missing, sensor readings both raw and   *)
(* enriched; a field that is there holds a value of its type.                *)

\* Longest list that is aggregated.
MaxBatch == 3

BatchUserEvents ==
    { MakeDict(f) : f \in
        { [user_id |-> Lit(1), event_type |-> Str("a")],
          [user_id |-> Lit(2), event_type |-> Str("b")],
          [user_id |-> Lit(1), event_type |-> Str("b")],
          [user_id |-> Absent, event_type |-> Str("a")],
          [user_id |-> Absent, event_type |-> Absent] } }

RawReadings ==
    { MakeDict(f) : f \in
        { [temperature |-> Lit(30), humidity |-> Lit(50), pressure |-> Dec(1013, 25)],
          [temperature |-> Lit(10), humidity |-> Lit(20), pressure |-> Lit(1000)],
          [temperature |-> Lit(40), humidity |-> Lit(95), pressure |-> Absent] } }

\* What enrich_sensor_data returns for the reading r.
Enriched(r) == LET e == enrich_sensor_data(<<r>>, 1, 0) IN e.heap[e.ret.ref]

BatchReadings == RawReadings \cup { Enriched(r) : r \in RawReadings }

BatchTransactions ==
    { MakeDict(f) : f \in
        { [amount |-> Lit(100), currency |-> Str("USD"), merchant |-> Str("merchant_1")],
          [amount |-> Dec(49, 99), currency |-> Str("EUR"), merchant |-> Absent],
          [amount |-> Lit(1500), currency |-> Str("USD"), merchant |-> Str("merchant_2")],
          [amount |-> Absent, currency |-> Absent, merchant |-> Str("merchant_1")] } }

BatchRecords == BatchUserEvents \cup BatchReadings \cup BatchTransactions

Aggregators == {"aggregate_user_events", "aggregate_sensor_data", "aggregate_transactions"}

InitBatch ==
    /\ heap = <<EmptyDict>> /\ before = EmptyDict
    /\ arg = 1
    /\ op = "none"
    /\ ret = NoReturn
    /\ clock = 0
    /\ batch = <<>> /\ agg = "none" /\ summary = NotCalled
    /\ calls = <<>> /\ threads = <<>> /\ flow = <<>>
    /\ producer = <<>> /\ pipeline = <<>>

\* One more record is put at the end of the list.
Collect ==
    /\ agg = "none"
    /\ Len(batch) < MaxBatch
    /\ \E r \in BatchRecords : batch' = Append(batch, r)
    /\ UNCHANGED <<agg, summary, otherThanBatch>>

\* An aggregate function is called on the list.
CallAggregate(name, result) ==
    /\ agg = "none"
    /\ agg' = name
    /\ summary' = result
    /\ UNCHANGED <<batch, otherThanBatch>>

AggregateUserEvents ==
    CallAggregate("aggregate_user_events", aggregate_user_events(batch))
AggregateSensorData ==
    CallAggregate("aggregate_sensor_data", aggregate_sensor_data(batch))
AggregateTransactions ==
    CallAggregate("aggregate_transactions", aggregate_transactions(batch))

\* The caller is done with the summary.
Discard ==
    /\ agg # "none"
    /\ agg' = "none"
    /\ summary' = NotCalled
    /\ UNCHANGED <<batch, otherThanBatch>>

NextBatch ==
    \/ Collect
    \/ AggregateUserEvents
    \/ AggregateSensorData
    \/ AggregateTransactions
    \/ Discard

SpecBatch == InitBatch /\ [][NextBatch]_vars

BatchTypeOK ==
    /\ Len(batch) <= MaxBatch
    /\ agg \in Aggregators \cup {"none"}
    /\ summary.kind \in {"none", "dict", "raise"}
    /\ agg = "none" <=> summary.kind = "none"

-----------------------------------------------------------------------------
(* Properties.  `before` is the argument as it was when the call was made,   *)
(* Result the record an enricher returned.                                   *)

Result == heap[ret.ref]

\* lo <= v <= hi as Python evaluates it on a value that can be ordered.
Within(v, lo, hi) == IsNumber(v) /\ lo * Scale <= v.n /\ v.n <= hi * Scale

\* del d[k]
DelItem(d, k) == [x \in DOMAIN d \ {k} |-> d[x]]

\* C1: validate_sensor_data returns true exactly for the records that hold
\* sensor_id, temperature, humidity, pressure and timestamp with
\* 0 <= temperature <= 50 and 0 <= humidity <= 100, both ends included
\* (50 accepted, 50.1 rejected); replacing the value of pressure by any other
\* value leaves the result as it is.
C1_SensorValidIff ==
    op = "validate_sensor_data" =>
        /\ (ret = Returned(TRUE)) <=>
               /\ {"sensor_id", "temperature", "humidity", "pressure", "timestamp"}
                      \subseteq DOMAIN before
               /\ Within(before["temperature"], 0, 50)
               /\ Within(before["humidity"], 0, 100)
        /\ "temperature" \in DOMAIN before /\ before["temperature"] = Dec(50, 10)
               => ret # Returned(TRUE)
        /\ "pressure" \in DOMAIN before =>
               \A p \in Pressures : validate_sensor_data(SetItem(before, "pressure", p)) = ret

\* C1 witness: a reading with temperature exactly 50 has been accepted.
C1_Witness ==
    /\ op = "validate_sensor_data"
    /\ ret = Returned(TRUE)
    /\ before["temperature"] = Lit(50)

C3_UserEventValidIff ==
    op = "validate_user_event" =>
        /\ ret.kind = "bool"
        /\ ret.b <=> /\ "user_id" \in DOMAIN before
                     /\ "event_type" \in DOMAIN before
                     /\ "timestamp" \in DOMAIN before
        /\ \A k \in DOMAIN before \ {"user_id", "event_type", "timestamp"} :
               validate_user_event(DelItem(before, k)) = ret

\* C3 witness: an event with an extra field and a user_id of an odd type has
\* been accepted.
C3_Witness ==
    /\ op = "validate_user_event"
    /\ ret = Returned(TRUE)
    /\ before["user_id"] = Str("u7")
    /\ "page_url" \in DOMAIN before

\* C4 (as claimed): a validator called on a flat record of scalars always
\* returns a boolean and never raises.
C4_ValidatorsNeverRaise ==
    op \in Validators => ret.kind = "bool"

\* C5: an enricher leaves its argument as it was, keys and values, and
\* returns another object, so that a later change of the result does not
\* show in the argument.
C5_InputNotMutated ==
    /\ heap[arg] = before
    /\ ret.kind = "ref" => ret.ref # arg

\* C5 witness: the caller has changed the returned record and the argument
\* is still what it was.
C5_Witness ==
    /\ op = "updated"
    /\ Result["data_source"] = Str("caller")
    /\ "data_source" \notin DOMAIN heap[arg]
    /\ heap[arg] = before

\* The fields each enricher derives.
DerivedFields(name) ==
    {"processed_at", "data_source"} \cup
    CASE name = "enrich_user_event" -> {"user_segment"}
      [] name = "enrich_sensor_data" -> {"heat_index", "temperature_alert", "humidity_alert"}
      [] name = "enrich_transaction" -> {"transaction_category", "fraud_risk"}
      [] OTHER -> {}

\* C6 (as claimed): every field of the argument is in the returned record
\* with the value it had, and the returned record's keys are the argument's
\* plus the derived field names.
C6_AllFieldsPreserved ==
    op \in Enrichers /\ ret.kind = "ref" =>
        /\ DOMAIN Result = DOMAIN before \cup DerivedFields(op)
        /\ \A k \in DOMAIN before : Result[k] = before[k]

\* C6 (amended): every field of the argument that does not bear the name of
\* a derived field of that enricher is in the returned record with the value
\* it had; a field that bears such a name is overwritten by the derived
\* value; the returned record's keys are the argument's plus the derived
\* field names.
C6_OtherFieldsPreserved ==
    op \in Enrichers /\ ret.kind = "ref" =>
        /\ DOMAIN Result = DOMAIN before \cup DerivedFields(op)
        /\ \A k \in DOMAIN before \ DerivedFields(op) : Result[k] = before[k]
        /\ Result["data_source"] = Str("kafka_stream")

\* C6 witness: a record that already held processed_at has been enriched
\* again at a later time, and its processed_at was overwritten while its
\* other fields were kept.
C6_Witness ==
    /\ op \in Enrichers
    /\ ret.kind = "ref"
    /\ "processed_at" \in DOMAIN before
    /\ Result["processed_at"] # before["processed_at"]
    /\ "timestamp" \in DOMAIN before
    /\ Result["timestamp"] = before["timestamp"]

\* C7: enrich_user_event sets user_segment from user_id alone: premium up to
\* and including 100, regular above 100 up to and including 500, new above
\* 500; it also sets processed_at to the clock reading in ISO format and
\* data_source to the constant tag.
C7_UserSegment ==
    op = "enrich_user_event" /\ ret.kind = "ref" /\ "user_id" \in DOMAIN before =>
        LET n == before["user_id"].n
            segment == Result["user_segment"]
        IN  /\ n <= 100 * Scale => segment = Str("premium")
            /\ 100 * Scale < n /\ n <= 500 * Scale => segment = Str("regular")
            /\ n > 500 * Scale => segment = Str("new")
            /\ \E now \in 0..clock : Result["processed_at"] = Str(isoformat(now))
            /\ Result["data_source"] = Str("kafka_stream")

\* C7 witness: user_id 100 has been given the premium segment.
C7_Witness ==
    /\ op = "enrich_user_event"
    /\ ret.kind = "ref"
    /\ "user_id" \in DOMAIN before
    /\ before["user_id"] = Lit(100)
    /\ Result["user_segment"] = Str("premium")

\* C8: enrich_sensor_data sets heat_index to temperature + 0.5 * humidity
\* exactly when temperature > 27 and humidity > 40, both strict, and to the
\* temperature otherwise (30 and 50 give 55, 10 and 20 give 10).
C8_HeatIndex ==
    op = "enrich_sensor_data" /\ ret.kind = "ref"
        /\ {"temperature", "humidity"} \subseteq DOMAIN before =>
        LET temperature == before["temperature"]
            humidity == before["humidity"]
            hot == temperature.n > 27 * Scale /\ humidity.n > 40 * Scale
        IN  /\ hot => /\ Result["heat_index"].t = "num"
                      /\ 2 * Result["heat_index"].n = 2 * temperature.n + humidity.n
            /\ ~hot => Result["heat_index"] = temperature
            /\ temperature = Lit(30) /\ humidity = Lit(50) => Result["heat_index"] = Lit(55)
            /\ temperature = Lit(10) /\ humidity = Lit(20) => Result["heat_index"] = Lit(10)

\* C8 witness: temperature 30 and humidity 50 have given heat_index 55.
C8_Witness ==
    /\ op = "enrich_sensor_data"
    /\ ret.kind = "ref"
    /\ {"temperature", "humidity"} \subseteq DOMAIN before
    /\ before["temperature"] = Lit(30)
    /\ before["humidity"] = Lit(50)
    /\ Result["heat_index"] = Lit(55)

\* C9: enrich_sensor_data sets temperature_alert exactly when temperature > 35
\* or temperature < 5, and humidity_alert exactly when humidity > 90 or
\* humidity < 10; the four thresholds themselves raise no alert.
C9_Alerts ==
    op = "enrich_sensor_data" /\ ret.kind = "ref"
        /\ {"temperature", "humidity"} \subseteq DOMAIN before =>
        LET temperature == before["temperature"].n
            humidity == before["humidity"].n
        IN  /\ Result["temperature_alert"].t = "bool"
            /\ Result["humidity_alert"].t = "bool"
            /\ Truthy(Result["temperature_alert"])
                   <=> (temperature > 35 * Scale \/ temperature < 5 * Scale)
            /\ Truthy(Result["humidity_alert"])
                   <=> (humidity > 90 * Scale \/ humidity < 10 * Scale)

\* C9 witness: temperature 35 has raised no temperature alert.
C9_Witness ==
    /\ op = "enrich_sensor_data"
    /\ ret.kind = "ref"
    /\ "temperature" \in DOMAIN before
    /\ before["temperature"] = Lit(35)
    /\ Result["temperature_alert"] = Bool(FALSE)

\* C10: enrich_transaction sets transaction_category to small for
\* amount < 50, medium for 50 <= amount < 200 and large for amount >= 200
\* (49.99 small, 50 medium, 200 large).
C10_TransactionCategory ==
    op = "enrich_transaction" /\ ret.kind = "ref" /\ "amount" \in DOMAIN before =>
        LET amount == before["amount"].n
            category == Result["transaction_category"]
        IN  /\ amount < 50 * Scale => category = Str("small")
            /\ 50 * Scale <= amount /\ amount < 200 * Scale => category = Str("medium")
            /\ amount >= 200 * Scale => category = Str("large")
            /\ before["amount"] = Dec(49, 99) => category = Str("small")

\* C10 witness: amount 50 has been put in the medium bucket.
C10_Witness ==
    /\ op = "enrich_transaction"
    /\ ret.kind = "ref"
    /\ "amount" \in DOMAIN before
    /\ before["amount"] = Lit(50)
    /\ Result["transaction_category"] = Str("medium")

\* C11: enrich_transaction sets fraud_risk to high for amount > 1000, medium
\* for 500 < amount <= 1000 and low for amount <= 500 (1500 high, exactly
\* 1000 medium, exactly 500 low).
C11_FraudRisk ==
    op = "enrich_transaction" /\ ret.kind = "ref" /\ "amount" \in DOMAIN before =>
        LET amount == before["amount"].n
            risk == Result["fraud_risk"]
        IN  /\ amount > 1000 * Scale => risk = Str("high")
            /\ 500 * Scale < amount /\ amount <= 1000 * Scale => risk = Str("medium")
            /\ amount <= 500 * Scale => risk = Str("low")
            /\ before["amount"] = Lit(1500) => risk = Str("high")

\* C11 witness: amount exactly 1000 has been rated medium.
C11_Witness ==
    /\ op = "enrich_transaction"
    /\ ret.kind = "ref"
    /\ "amount" \in DOMAIN before
    /\ before["amount"] = Lit(1000)
    /\ Result["fraud_risk"] = Str("medium")

-----------------------------------------------------------------------------
(* Properties of the aggregators, under SpecBatch.                           *)

Indices == 1..Len(batch)

\* The sum of f[i] over the indices in S.
RECURSIVE SumOver(_, _)
SumOver(S, f) ==
    IF S = {} THEN 0
    ELSE LET i == CHOOSE j \in S : TRUE IN f[i] + SumOver(S \ {i}, f)

\* The sum of a field over the records of the list that have it.
FieldSum(field) ==
    LET present == {i \in Indices : field \in DOMAIN batch[i]}
    IN  SumOver(present, [i \in present |-> batch[i][field].n])

\* C12: each aggregate function returns an empty mapping for an empty list
\* and a non-empty mapping for a non-empty list, and raises in neither case.
C12_EmptyIffEmpty ==
    agg \in Aggregators =>
        /\ summary.kind = "dict"
        /\ batch = <<>> <=> DOMAIN summary.value = {}

\* C12 witness: aggregate_transactions has returned {} for the empty list.
C12_Witness ==
    /\ agg = "aggregate_transactions"
    /\ batch = <<>>
    /\ summary.kind = "dict"
    /\ DOMAIN summary.value = {}

\* C13: for a non-empty list of user events aggregate_user_events returns
\* the number of events, for each event type the number of events of that
\* type, the number of distinct user ids and the quotient of the first by
\* the third; users 1, 1, 2 with types a, a, b give 2 active users, 1.5
\* events per user and the counts a: 2, b: 1.
C13_UserEventSummary ==
    /\ agg = "aggregate_user_events"
    /\ batch # <<>>
    /\ \A i \in Indices : {"user_id", "event_type"} \subseteq DOMAIN batch[i]
    => LET s == summary.value
           types == {batch[i]["event_type"] : i \in Indices}
           users == {batch[i]["user_id"] : i \in Indices}
       IN  /\ summary.kind = "dict"
           /\ s.total_events = Len(batch)
           /\ DOMAIN s.event_type_counts = types
           /\ \A t \in types :
                  s.event_type_counts[t]
                      = Cardinality({i \in Indices : batch[i]["event_type"] = t})
           /\ s.active_users = Cardinality(users)
           /\ s.avg_events_per_user.den # 0
           /\ s.avg_events_per_user.num * s.active_users
                  = s.total_events * s.avg_events_per_user.den
           /\ /\ [i \in Indices |-> batch[i]["user_id"]] = <<Lit(1), Lit(1), Lit(2)>>
              /\ [i \in Indices |-> batch[i]["event_type"]] = <<Str("a"), Str("a"), Str("b")>>
              => /\ s.active_users = 2
                 /\ 2 * s.avg_events_per_user.num = 3 * s.avg_events_per_user.den
                 /\ s.event_type_counts[Str("a")] = 2
                 /\ s.event_type_counts[Str("b")] = 1

\* C13 witness: the events of users 1, 1, 2 with types a, a, b have been
\* aggregated.
C13_Witness ==
    /\ agg = "aggregate_user_events"
    /\ Len(batch) = 3
    /\ \A i \in Indices : {"user_id", "event_type"} \subseteq DOMAIN batch[i]
    /\ [i \in Indices |-> batch[i]["user_id"]] = <<Lit(1), Lit(1), Lit(2)>>
    /\ [i \in Indices |-> batch[i]["event_type"]] = <<Str("a"), Str("a"), Str("b")>>
    /\ summary.kind = "dict"
    /\ summary.value.active_users = 2

\* C14: the alerts of aggregate_sensor_data are the number of records whose
\* stored temperature_alert is true; on readings without that field the
\* count is 0 whatever their temperatures.
C14_AlertsReadFromField ==
    agg = "aggregate_sensor_data" /\ batch # <<>> =>
        /\ summary.kind = "dict"
        /\ summary.value.alerts =
               Cardinality({i \in Indices :
                   /\ "temperature_alert" \in DOMAIN batch[i]
                   /\ batch[i]["temperature_alert"] = Bool(TRUE)})
        /\ (\A i \in Indices : "temperature_alert" \notin DOMAIN batch[i])
               => summary.value.alerts = 0

\* C14 witness: a raw reading of 40 degrees has been aggregated with 0 alerts.
C14_Witness ==
    /\ agg = "aggregate_sensor_data"
    /\ batch # <<>>
    /\ \A i \in Indices :
           /\ "temperature" \in DOMAIN batch[i]
           /\ batch[i]["temperature"] = Lit(40)
           /\ "temperature_alert" \notin DOMAIN batch[i]
    /\ summary.kind = "dict"
    /\ summary.value.alerts = 0

\* C15: for a non-empty list of sensor readings aggregate_sensor_data returns
\* the number of readings, the mean (sum over count) of temperature, of
\* humidity and of pressure, and the largest and the smallest temperature.
C15_SensorSummary ==
    /\ agg = "aggregate_sensor_data"
    /\ batch # <<>>
    /\ \A i \in Indices : {"temperature", "humidity", "pressure"} \subseteq DOMAIN batch[i]
    => LET s == summary.value
       IN  /\ summary.kind = "dict"
           /\ s.total_readings = Len(batch)
           /\ s.avg_temperature = Ratio(FieldSum("temperature"), Len(batch))
           /\ s.avg_humidity = Ratio(FieldSum("humidity"), Len(batch))
           /\ s.avg_pressure = Ratio(FieldSum("pressure"), Len(batch))
           /\ \E i \in Indices : batch[i]["temperature"] = s.max_temperature
           /\ \A i \in Indices : batch[i]["temperature"].n <= s.max_temperature.n
           /\ \E i \in Indices : batch[i]["temperature"] = s.min_temperature
           /\ \A i \in Indices : batch[i]["temperature"].n >= s.min_temperature.n

\* C15 witness: readings of 30 and 10 degrees have been aggregated to a
\* maximum of 30 and a minimum of 10.
C15_Witness ==
    /\ agg = "aggregate_sensor_data"
    /\ Len(batch) = 2
    /\ \A i \in Indices : {"temperature", "humidity", "pressure"} \subseteq DOMAIN batch[i]
    /\ summary.kind = "dict"
    /\ summary.value.max_temperature = Lit(30)
    /\ summary.value.min_temperature = Lit(10)
    /\ summary.value.avg_temperature = Ratio(40 * Scale, 2)

\* The key a transaction is counted under in merchant_counts.
MerchantKey(t) == IF "merchant" \in DOMAIN t THEN t["merchant"] ELSE Str("unknown")

\* C16: for a non-empty list of transactions aggregate_transactions returns
\* the count, the sum of the amounts, their mean, for each currency the sum
\* of the amounts in it, for each merchant the number of its transactions
\* (a transaction without merchant counting under "unknown"), and the
\* largest and the smallest amount.
C16_TransactionSummary ==
    /\ agg = "aggregate_transactions"
    /\ batch # <<>>
    /\ \A i \in Indices : {"amount", "currency"} \subseteq DOMAIN batch[i]
    => LET s == summary.value
           currencies == {batch[i]["currency"] : i \in Indices}
           merchants == {MerchantKey(batch[i]) : i \in Indices}
           amount == [i \in Indices |-> batch[i]["amount"].n]
       IN  /\ summary.kind = "dict"
           /\ s.total_transactions = Len(batch)
           /\ s.total_amount = Num(FieldSum("amount"))
           /\ s.avg_amount = Ratio(FieldSum("amount"), Len(batch))
           /\ DOMAIN s.currency_totals = currencies
           /\ \A c \in currencies :
                  s.currency_totals[c] =
                      Num(SumOver({i \in Indices : batch[i]["currency"] = c}, amount))
           /\ DOMAIN s.merchant_counts = merchants
           /\ \A m \in merchants :
                  s.merchant_counts[m]
                      = Cardinality({i \in Indices : MerchantKey(batch[i]) = m})
           /\ \E i \in Indices : batch[i]["amount"] = s.max_transaction
           /\ \A i \in Indices : amount[i] <= s.max_transaction.n
           /\ \E i \in Indices : batch[i]["amount"] = s.min_transaction
           /\ \A i \in Indices : amount[i] >= s.min_transaction.n

\* C16 witness: two transactions in USD and one in EUR without merchant have
\* been aggregated.
C16_Witness ==
    /\ agg = "aggregate_transactions"
    /\ Len(batch) = 3
    /\ \A i \in Indices : {"amount", "currency"} \subseteq DOMAIN batch[i]
    /\ summary.kind = "dict"
    /\ DOMAIN summary.value.currency_totals = {Str("USD"), Str("EUR")}
    /\ Str("unknown") \in DOMAIN summary.value.merchant_counts
    /\ summary.value.currency_totals[Str("USD")] = Lit(1600)
    /\ summary.value.currency_totals[Str("EUR")] = Dec(49, 99)
    /\ summary.value.merchant_counts[Str("unknown")] = 1
    /\ summary.value.max_transaction = Lit(1500)

\* C17: on a non-empty list in which records lack fields every aggregate
\* function returns a summary and does not raise; a missing numeric field
\* counts as 0 and a missing event_type, currency or merchant as "unknown".
C17_MissingKeysDefaulted ==
    agg \in Aggregators /\ batch # <<>> =>
        LET s == summary.value
            lacking(field) == {i \in Indices : field \notin DOMAIN batch[i]}
            unknown == Str("unknown")
        IN  /\ summary.kind = "dict"
            /\ agg = "aggregate_user_events" =>
                   /\ lacking("event_type") # {} =>
                          /\ unknown \in DOMAIN s.event_type_counts
                          /\ s.event_type_counts[unknown] = Cardinality(lacking("event_type"))
                   /\ s.active_users =
                          Cardinality({batch[i]["user_id"] : i \in Indices \ lacking("user_id")}
                                      \cup (IF lacking("user_id") # {} THEN {Lit(0)} ELSE {}))
            /\ agg = "aggregate_sensor_data" =>
                   /\ s.total_readings = Len(batch)
                   /\ s.avg_temperature = Ratio(FieldSum("temperature"), Len(batch))
                   /\ s.avg_humidity = Ratio(FieldSum("humidity"), Len(batch))
                   /\ s.avg_pressure = Ratio(FieldSum("pressure"), Len(batch))
                   /\ lacking("temperature") # {} =>
                          s.min_temperature.n <= 0 /\ s.max_temperature.n >= 0
            /\ agg = "aggregate_transactions" =>
                   /\ s.total_transactions = Len(batch)
                   /\ s.total_amount = Num(FieldSum("amount"))
                   /\ lacking("currency") # {} => unknown \in DOMAIN s.currency_totals
                   /\ lacking("merchant") # {} =>
                          /\ unknown \in DOMAIN s.merchant_counts
                          /\ s.merchant_counts[unknown] = Cardinality(lacking("merchant"))

\* C17 witness: a transaction without amount and currency has been
\* aggregated together with one of 100 USD.
C17_Witness ==
    /\ agg = "aggregate_transactions"
    /\ Len(batch) = 2
    /\ \E i \in Indices : {"amount", "currency"} \cap DOMAIN batch[i] = {}
    /\ summary.kind = "dict"
    /\ summary.value.total_amount = Lit(100)
    /\ Str("unknown") \in DOMAIN summary.value.currency_totals

-----------------------------------------------------------------------------
(* Repeated calls: a caller calls one of the functions and later calls the   *)
(* same function again on an equal input, the clock moving in between.       *)

\* The lists an aggregate function is called on twice.
RECURSIVE ListsOver(_, _)
ListsOver(S, n) ==
    IF n = 0 THEN {<<>>}
    ELSE LET shorter == ListsOver(S, n - 1)
         IN  shorter \cup {Append(l, r) : l \in {x \in shorter : Len(x) = n - 1}, r \in S}

RepeatLists ==
    ListsOver(BatchUserEvents, MaxBatch) \cup ListsOver(BatchReadings, MaxBatch)
        \cup ListsOver(BatchTransactions, MaxBatch)

\* The function called by its name.
validate(name, data) ==
    CASE name = "validate_user_event" -> validate_user_event(data)
      [] name = "validate_sensor_data" -> validate_sensor_data(data)
      [] name = "validate_transaction" -> validate_transaction(data)
enrich(name, h, data, now) ==
    CASE name = "enrich_user_event" -> enrich_user_event(h, data, now)
      [] name = "enrich_sensor_data" -> enrich_sensor_data(h, data, now)
      [] name = "enrich_transaction" -> enrich_transaction(h, data, now)
aggregate(name, records) ==
    CASE name = "aggregate_user_events" -> aggregate_user_events(records)
      [] name = "aggregate_sensor_data" -> aggregate_sensor_data(records)
      [] name = "aggregate_transactions" -> aggregate_transactions(records)

\* What the caller of the function sees: how the call ended and the value it
\* gave (for an enricher the record behind the reference it returned).
Outcome(name, input, now) ==
    IF name \in Validators
    THEN LET r == validate(name, input)
         IN  [kind |-> r.kind, b |-> r.b, value |-> EmptyDict]
    ELSE IF name \in Enrichers
    THEN LET e == enrich(name, <<input>>, 1, now)
         IN  [kind |-> e.ret.kind, b |-> FALSE,
              value |-> IF e.ret.kind = "ref" THEN e.heap[e.ret.ref] ELSE EmptyDict]
    ELSE LET a == aggregate(name, input)
         IN  [kind |-> a.kind, b |-> FALSE, value |-> a.value]

Called(name, input, now) ==
    [fn |-> name, input |-> input, at |-> now, out |-> Outcome(name, input, now)]

InitRepeat ==
    /\ heap = <<EmptyDict>> /\ before = EmptyDict
    /\ arg = 1
    /\ op = "none"
    /\ ret = NoReturn
    /\ clock = 0
    /\ batch = <<>> /\ agg = "none" /\ summary = NotCalled
    /\ calls = <<>> /\ threads = <<>> /\ flow = <<>>
    /\ producer = <<>> /\ pipeline = <<>>

\* The first call: of a validator or an enricher on a record.
CallOnRecord ==
    /\ calls = <<>>
    /\ \E name \in Validators \cup Enrichers, r \in Records :
           calls' = <<Called(name, r, clock)>>
    /\ UNCHANGED <<recordVars, batchVars, threads, flow, producer, pipeline>>

\* The first call: of an aggregate function on a list.
CallOnList ==
    /\ calls = <<>>
    /\ \E name \in Aggregators, l \in RepeatLists :
           calls' = <<Called(name, l, clock)>>
    /\ UNCHANGED <<recordVars, batchVars, threads, flow, producer, pipeline>>

\* The same function is called again on an input equal to the first one.
CallAgain ==
    /\ Len(calls) = 1
    /\ calls' = Append(calls, Called(calls[1].fn, calls[1].input, clock))
    /\ UNCHANGED <<recordVars, batchVars, threads, flow, producer, pipeline>>

\* The caller forgets both calls.
Forget ==
    /\ Len(calls) = 2
    /\ calls' = <<>>
    /\ UNCHANGED <<recordVars, batchVars, threads, flow, producer, pipeline>>

NextRepeat ==
    \/ CallOnRecord
    \/ CallOnList
    \/ CallAgain
    \/ Forget
    \/ Tick

SpecRepeat == InitRepeat /\ [][NextRepeat]_vars

RepeatTypeOK ==
    /\ Len(calls) <= 2
    /\ \A i \in 1..Len(calls) :
           /\ calls[i].fn \in Validators \cup Enrichers \cup Aggregators
           /\ calls[i].at \in 0..MaxClock
           /\ calls[i].out.kind \in {"bool", "ref", "dict", "raise"}

-----------------------------------------------------------------------------
(* Concurrent calls: each thread calls the functions on a record of its own, *)
(* one statement at a time, in any interleaving with the other thread.  The  *)
(* dict objects are in the one heap of the process; the local variables of   *)
(* a call are in the frame of its thread.                                    *)

Threads == {1, 2}

\* A mutation of Local: `enriched` is one variable of the module, shared by
\* every call.
LocalShared(self) == 1

\* Lines 45, 62, 84: `enriched` is a local variable, kept in the frame of the
\* call that assigns it.
Local(self) == self

\* Lines 7, 12, 28.
required_fields(name) ==
    CASE name = "validate_user_event" -> {"user_id", "event_type", "timestamp"}
      [] name = "validate_sensor_data" ->
             {"sensor_id", "temperature", "humidity", "pressure", "timestamp"}
      [] name = "validate_transaction" ->
             {"transaction_id", "user_id", "amount", "currency", "timestamp"}

\* Lines 49-56: what enrich_user_event does after data_source is set.
user_event_fields(h, data, enriched) ==
    LET user_id == Get(h[data], "user_id", Lit(0))
    IN  IF ~IsNumber(user_id) THEN [heap |-> h, raised |-> TRUE]
        ELSE [heap |-> HeapSet(h, enriched, "user_segment", user_segment(user_id)),
              raised |-> FALSE]

\* Lines 66-78: what enrich_sensor_data does after data_source is set.
sensor_data_fields(h, data, enriched) ==
    LET temperature == Get(h[data], "temperature", Lit(0))
        humidity == Get(h[data], "humidity", Lit(0))
        h3 == HeapSet(h, enriched, "heat_index",
                      IF IsNumber(humidity) THEN heat_index(temperature, humidity)
                      ELSE temperature)
        h4 == HeapSet(h3, enriched, "temperature_alert", temperature_alert(temperature))
    IN  IF ~IsNumber(temperature) THEN [heap |-> h, raised |-> TRUE]
        ELSE IF temperature.n > 27 * Scale /\ ~IsNumber(humidity)
        THEN [heap |-> h, raised |-> TRUE]
        ELSE IF ~IsNumber(humidity) THEN [heap |-> h4, raised |-> TRUE]
        ELSE [heap |-> HeapSet(h4, enriched, "humidity_alert", humidity_alert(humidity)),
              raised |-> FALSE]

\* Lines 88-104: what enrich_transaction does after data_source is set.
transaction_fields(h, data, enriched) ==
    LET amount == Get(h[data], "amount", Lit(0))
    IN  IF ~IsNumber(amount) THEN [heap |-> h, raised |-> TRUE]
        ELSE [heap |-> HeapSet(HeapSet(h, enriched, "transaction_category",
                                       transaction_category(amount)),
                               enriched, "fraud_risk", fraud_risk(amount)),
              raised |-> FALSE]

derived_fields(name, h, data, enriched) ==
    CASE name = "enrich_user_event" -> user_event_fields(h, data, enriched)
      [] name = "enrich_sensor_data" -> sensor_data_fields(h, data, enriched)
      [] name = "enrich_transaction" -> transaction_fields(h, data, enriched)

\* The records the threads hold: one of each kind and an ill-typed one.
ThreadRecords ==
    { MakeDict(f) : f \in
        { [user_id |-> Lit(100), event_type |-> Str("click"),
           timestamp |-> Str("2024-01-01T00:00:00")],
          [sensor_id |-> Str("sensor_1"), temperature |-> Lit(30), humidity |-> Lit(50),
           pressure |-> Dec(1013, 25), timestamp |-> Str("2024-01-01T00:00:00")],
          [transaction_id |-> Str("txn_10000"), user_id |-> Lit(7), amount |-> Lit(1500),
           currency |-> Str("USD"), timestamp |-> Str("2024-01-01T00:00:00")],
          [sensor_id |-> Str("sensor_1"), temperature |-> Str("hot"), humidity |-> Lit(50),
           pressure |-> Dec(1013, 25), timestamp |-> Str("2024-01-01T00:00:00")] } }

\* The frame of a thread that is in no call; the record of thread self is
\* heap[self], and `enriched` is unbound (it names no other object yet).
Idle(self) ==
    [fn |-> "none", pc |-> "idle", input |-> EmptyDict, enriched |-> self,
     now |-> 0, seen |-> <<>>, out |-> NoReturn]

InitThreads ==
    /\ \E a \in ThreadRecords, b \in ThreadRecords : heap = <<a, b>>
    /\ before = EmptyDict
    /\ arg = 1
    /\ op = "none"
    /\ ret = NoReturn
    /\ clock = 0
    /\ batch = <<>> /\ agg = "none" /\ summary = NotCalled
    /\ calls = <<>> /\ flow = <<>>
    /\ producer = <<>> /\ pipeline = <<>>
    /\ threads = [self \in Threads |-> Idle(self)]

otherThanThreads == <<arg, op, ret, before, batchVars, calls, flow, producer, pipeline>>

\* The thread calls a function on its record (an aggregate function on the
\* list that holds it).
Start(self) ==
    /\ threads[self].pc = "idle"
    /\ \E name \in Validators \cup Enrichers \cup Aggregators :
           threads' = [threads EXCEPT
               ![self].fn = name,
               ![self].input = heap[self],
               ![self].pc = IF name \in Validators THEN "required"
                            ELSE IF name \in Enrichers THEN "copy" ELSE "read"]
    /\ UNCHANGED <<heap, clock, otherThanThreads>>

\* Lines 8, 13, 29: the test of the required fields.
CheckRequired(self) ==
    /\ threads[self].pc = "required"
    /\ threads' =
           IF ~HasAll(heap[self], required_fields(threads[self].fn))
           THEN [threads EXCEPT ![self].pc = "done", ![self].out = Returned(FALSE)]
           ELSE IF threads[self].fn = "validate_user_event"
           THEN [threads EXCEPT ![self].pc = "done", ![self].out = Returned(TRUE)]
           ELSE [threads EXCEPT ![self].pc = "ranges"]
    /\ UNCHANGED <<heap, clock, otherThanThreads>>

\* Lines 17-24, 33-41: the tests of the values, which read the record again.
CheckRanges(self) ==
    /\ threads[self].pc = "ranges"
    /\ threads' = [threads EXCEPT ![self].pc = "done",
                                  ![self].out = validate(threads[self].fn, heap[self])]
    /\ UNCHANGED <<heap, clock, otherThanThreads>>

\* Lines 45, 62, 84: enriched = data.copy()
Copy(self) ==
    /\ threads[self].pc = "copy"
    /\ LET c == DictCopy(heap, self)
       IN  /\ heap' = c.heap
           /\ threads' = [[threads EXCEPT ![Local(self)].enriched = c.ref]
                              EXCEPT ![self].pc = "stamp"]
    /\ UNCHANGED <<clock, otherThanThreads>>

\* Lines 46, 63, 85: enriched['processed_at'] = datetime.now().isoformat()
Stamp(self) ==
    /\ threads[self].pc = "stamp"
    /\ heap' = HeapSet(heap, threads[Local(self)].enriched, "processed_at",
                       Str(isoformat(clock)))
    /\ threads' = [threads EXCEPT ![self].pc = "source", ![self].now = clock]
    /\ UNCHANGED <<clock, otherThanThreads>>

\* Lines 47, 64, 86: enriched['data_source'] = 'kafka_stream'
Source(self) ==
    /\ threads[self].pc = "source"
    /\ heap' = HeapSet(heap, threads[Local(self)].enriched, "data_source",
                       Str("kafka_stream"))
    /\ threads' = [threads EXCEPT ![self].pc = "derive"]
    /\ UNCHANGED <<clock, otherThanThreads>>

\* Lines 49-56, 66-78, 88-104: the derived fields, read from data and
\* written to enriched; a comparison of a str with a number raises.
Derive(self) ==
    /\ threads[self].pc = "derive"
    /\ LET d == derived_fields(threads[self].fn, heap, self,
                               threads[Local(self)].enriched)
       IN  /\ heap' = d.heap
           /\ threads' = IF d.raised
                         THEN [threads EXCEPT ![self].pc = "done", ![self].out = Raised]
                         ELSE [threads EXCEPT ![self].pc = "return"]
    /\ UNCHANGED <<clock, otherThanThreads>>

\* Lines 58, 80, 106: return enriched
Return(self) ==
    /\ threads[self].pc = "return"
    /\ threads' = [threads EXCEPT
           ![self].pc = "done",
           ![self].out = ReturnedRef(threads[Local(self)].enriched)]
    /\ UNCHANGED <<heap, clock, otherThanThreads>>

\* Lines 116, 140-142, 159, 163: the records of the list are read.
ReadRecords(self) ==
    /\ threads[self].pc = "read"
    /\ threads' = [threads EXCEPT ![self].pc = "summarise",
                                  ![self].seen = <<heap[self]>>]
    /\ UNCHANGED <<heap, clock, otherThanThreads>>

\* Lines 128-133, 144-152, 170-178: the summary is built from what was read.
Summarise(self) ==
    /\ threads[self].pc = "summarise"
    /\ threads' = [threads EXCEPT
           ![self].pc = "done",
           ![self].out = aggregate(threads[self].fn, threads[self].seen)]
    /\ UNCHANGED <<heap, clock, otherThanThreads>>

\* Both threads are out of their calls: the callers drop what was returned.
Join ==
    /\ \A self \in Threads : threads[self].pc \in {"idle", "done"}
    /\ \E self \in Threads : threads[self].pc = "done"
    /\ heap' = SubSeq(heap, 1, Cardinality(Threads))
    /\ threads' = [self \in Threads |-> Idle(self)]
    /\ UNCHANGED <<clock, otherThanThreads>>

Step(self) ==
    \/ Start(self)
    \/ CheckRequired(self)
    \/ CheckRanges(self)
    \/ Copy(self)
    \/ Stamp(self)
    \/ Source(self)
    \/ Derive(self)
    \/ Return(self)
    \/ ReadRecords(self)
    \/ Summarise(self)

NextThreads ==
    \/ \E self \in Threads : Step(self)
    \/ Join
    \/ Tick

SpecThreads == InitThreads /\ [][NextThreads]_vars

ThreadsTypeOK ==
    /\ Len(heap) \in 2..4
    /\ \A self \in Threads :
           /\ threads[self].fn \in Validators \cup Enrichers \cup Aggregators \cup {"none"}
           /\ threads[self].pc \in {"idle", "required", "ranges", "copy", "stamp",
                                     "source", "derive", "return", "read",
                                     "summarise", "done"}
           /\ threads[self].enriched \in 1..Len(heap)
           /\ threads[self].now \in 0..MaxClock

\* C19: in every interleaving of the statements of two threads, each calling
\* on its own record, a call that has ended has given what the same call
\* gives run alone on that record (for an enricher: at the clock reading it
\* took), and the record of a thread is as it was when its call began.
C19_CallsIsolated ==
    \A self \in Threads :
        LET f == threads[self]
        IN  /\ f.pc # "idle" => heap[self] = f.input
            /\ f.pc = "done" =>
                   IF f.fn \in Validators THEN f.out = validate(f.fn, f.input)
                   ELSE IF f.fn \in Enrichers
                   THEN LET e == enrich(f.fn, <<f.input>>, 1, f.now)
                        IN  /\ f.out.kind = e.ret.kind
                            /\ f.out.kind = "ref" => heap[f.out.ref] = e.heap[e.ret.ref]
                   ELSE f.out = aggregate(f.fn, <<f.input>>)

\* C19 witness: two enrich calls on different records have overlapped: the
\* thread that copied its record second read the clock first, and both have
\* returned.
C19_Witness ==
    /\ \A self \in Threads : threads[self].pc = "done" /\ threads[self].fn \in Enrichers
    /\ heap[1] # heap[2]
    /\ threads[1].out = ReturnedRef(4)
    /\ threads[2].out = ReturnedRef(3)
    /\ threads[1].now < threads[2].now

-----------------------------------------------------------------------------
(* 08-prefect-3-local/workflows/data_pipeline.py: the data_pipeline flow and *)
(* its tasks.  A dataframe is its set of columns and the sequence of its     *)
(* rows, a row a function from the columns to cells; a cell is a number or   *)
(* NaN.  A date is the number of its day in the extracted range.  A file is  *)
(* the directory and the name it is written under.                           *)

\* Rows extract_data generates (n_records, 1000 in the source).
MaxRows == 2
\* Days in the extracted date range (31 in the source).
MaxDay == 2

NaN == [t |-> "null", n |-> 0, s |-> ""]

File(dir, name) == [dir |-> dir, name |-> name]

NoFrame == [columns |-> {}, rows |-> <<>>]

\* Line 21: retries=3
extract_retries == 3

\* Lines 38-57: the rows of the sales data: sale_id counts from 1, the date
\* is one of the range, quantity lies in 1..9 and total_amount is
\* unit_price * quantity with unit_price at least 10.
SalesRows(i) ==
    { [sale_id |-> Lit(i), sale_date |-> Lit(day), product_id |-> Lit(1),
       customer_id |-> Lit(1), region_id |-> Lit(1), quantity |-> Lit(quantity),
       unit_price |-> Lit(10), total_amount |-> Lit(10 * quantity)] :
          day \in 1..MaxDay, quantity \in {1, 9} }

RECURSIVE SalesData(_)
SalesData(n) ==
    IF n = 0 THEN {<<>>}
    ELSE {Append(rows, r) : rows \in SalesData(n - 1), r \in SalesRows(n)}

\* Lines 22-67: the dataframes extract_data can return.
extract_data ==
    { [columns |-> {"sale_id", "sale_date", "product_id", "customer_id", "region_id",
                    "quantity", "unit_price", "total_amount"},
       rows |-> rows] : rows \in SalesData(MaxRows) }

\* Line 64: the file extract_data writes.
RawFile == File("data/raw", "sales_raw.csv")

\* Lines 76-85: the derived columns of a row.
WithColumns(row) ==
    [c \in DOMAIN row \cup {"month", "year", "day_of_week", "profit_margin",
                            "revenue_per_unit"} |->
        CASE c = "month" -> Lit(1)
          [] c = "year" -> Lit(2024)
          [] c = "day_of_week" -> Lit((row["sale_date"].n \div Scale) % 7)
          [] c = "profit_margin" -> Num((row["total_amount"].n * 3) \div 10)
          [] c = "revenue_per_unit" ->
                 Num((row["total_amount"].n * Scale) \div row["quantity"].n)
          [] OTHER -> row[c]]

\* Lines 70-94.
transform_data(df) ==
    LET derived == [i \in 1..Len(df.rows) |-> WithColumns(df.rows[i])]
        NoNaN(row) == \A c \in DOMAIN row : row[c] # NaN
        Positive(row) == row["total_amount"].n > 0
    IN  [columns |-> df.columns \cup {"month", "year", "day_of_week", "profit_margin",
                                      "revenue_per_unit"},
         rows |-> SelectSeq(SelectSeq(derived, NoNaN), Positive)]

\* Lines 97-130: the files load_data writes at clock reading now, and the
\* path it returns.
load_data(df, now) ==
    [files |-> {File("data/processed", "sales_processed_" \o ToString(now) \o ".csv"),
                File("data/processed", "summary_" \o ToString(now) \o ".json")},
     output_file |-> File("data/processed", "sales_processed_" \o ToString(now) \o ".csv")]

\* Lines 133-166.  Series.min() and max() skip NaN and are NaT on a series
\* without a date, and NaT <= NaT is false; df['quantity'] raises KeyError
\* on a dataframe without that column.
validate_data(df) ==
    LET rows == df.rows
        required_columns == {"sale_id", "sale_date", "product_id", "customer_id",
                             "total_amount"}
        has_duplicates == \E i \in 1..Len(rows), j \in 1..Len(rows) :
                              i < j /\ rows[i] = rows[j]
        has_nulls == \E i \in 1..Len(rows) : \E c \in df.columns : rows[i][c] = NaN
        negative_amounts == \E i \in 1..Len(rows) :
                                rows[i]["total_amount"] # NaN /\ rows[i]["total_amount"].n < 0
        zero_quantities == \E i \in 1..Len(rows) :
                               rows[i]["quantity"] # NaN /\ rows[i]["quantity"].n <= 0
        valid_date_range == \E i \in 1..Len(rows) : rows[i]["sale_date"] # NaN
    IN  IF ~(required_columns \subseteq df.columns) THEN Returned(FALSE)
        ELSE IF "quantity" \notin df.columns THEN Raised
        ELSE Returned(~(has_duplicates \/ has_nulls \/ negative_amounts
                            \/ zero_quantities \/ valid_date_range))

\* What the flow returns.
PyNone == [kind |-> "None", file |-> File("", "")]
Path(file) == [kind |-> "str", file |-> file]
NotReturned == [kind |-> "unset", file |-> File("", "")]

\* A run of the flow that has called no task yet.
FlowStart(files) ==
    [pc |-> "extract", attempts |-> 0, raw_data |-> NoFrame, transformed_data |-> NoFrame,
     is_valid |-> NoReturn, result |-> NotReturned, trace |-> <<>>, files |-> files]

InitFlow ==
    /\ heap = <<EmptyDict>> /\ before = EmptyDict
    /\ arg = 1
    /\ op = "none"
    /\ ret = NoReturn
    /\ clock = 0
    /\ batch = <<>> /\ agg = "none" /\ summary = NotCalled
    /\ calls = <<>> /\ threads = <<>>
    /\ producer = <<>> /\ pipeline = <<>>
    /\ flow = FlowStart({})

otherThanFlow == <<heap, arg, op, ret, before, batchVars, calls, threads, producer, pipeline>>

\* Line 176: extract_data returns a dataframe, having written the raw file.
ExtractData ==
    /\ flow.pc = "extract"
    /\ \E df \in extract_data :
           flow' = [flow EXCEPT !.raw_data = df,
                                !.files = @ \cup {RawFile},
                                !.trace = Append(@, "extract_data"),
                                !.pc = "transform"]
    /\ UNCHANGED <<clock, otherThanFlow>>

\* Lines 21, 63-64, 193-195: writing the raw file fails; the task is run
\* again while it has retries left, and after that the flow raises.
ExtractFails ==
    /\ flow.pc = "extract"
    /\ flow' = [flow EXCEPT !.attempts = @ + 1,
                            !.trace = Append(@, "extract_data"),
                            !.pc = IF flow.attempts < extract_retries
                                   THEN "extract" ELSE "raised"]
    /\ UNCHANGED <<clock, otherThanFlow>>

\* Line 179.
TransformData ==
    /\ flow.pc = "transform"
    /\ flow' = [flow EXCEPT !.transformed_data = transform_data(flow.raw_data),
                            !.trace = Append(@, "transform_data"),
                            !.pc = "validate"]
    /\ UNCHANGED <<clock, otherThanFlow>>

\* Line 182.
ValidateData ==
    /\ flow.pc = "validate"
    /\ LET is_valid == validate_data(flow.transformed_data)
       IN  flow' = [flow EXCEPT !.is_valid = is_valid,
                                !.trace = Append(@, "validate_data"),
                                !.pc = IF is_valid = Raised THEN "raised" ELSE "branch"]
    /\ UNCHANGED <<clock, otherThanFlow>>

\* A mutation of LoadIfValid: load_data is called whatever validate_data
\* returned.
LoadAlways ==
    /\ flow.pc = "branch"
    /\ LET l == load_data(flow.transformed_data, clock)
       IN  flow' = [flow EXCEPT !.files = @ \cup l.files,
                                !.result = Path(l.output_file),
                                !.trace = Append(@, "load_data"),
                                !.pc = "returned"]
    /\ UNCHANGED <<clock, otherThanFlow>>

\* Lines 184-191: if is_valid, load_data is called and its path returned;
\* else the flow returns None.
LoadIfValid ==
    /\ flow.pc = "branch"
    /\ LET l == load_data(flow.transformed_data, clock)
       IN  flow' = IF flow.is_valid = Returned(TRUE)
                   THEN [flow EXCEPT !.files = @ \cup l.files,
                                     !.result = Path(l.output_file),
                                     !.trace = Append(@, "load_data"),
                                     !.pc = "returned"]
                   ELSE [flow EXCEPT !.result = PyNone, !.pc = "returned"]
    /\ UNCHANGED <<clock, otherThanFlow>>

\* Line 199: the flow is run again; the files of the earlier run are there.
RunAgain ==
    /\ flow.pc \in {"returned", "raised"}
    /\ flow' = FlowStart(flow.files)
    /\ UNCHANGED <<clock, otherThanFlow>>

NextFlow ==
    \/ ExtractData
    \/ ExtractFails
    \/ TransformData
    \/ ValidateData
    \/ LoadIfValid
    \/ RunAgain
    \/ Tick

SpecFlow == InitFlow /\ [][NextFlow]_vars

Tasks == {"extract_data", "transform_data", "validate_data", "load_data"}

FlowTypeOK ==
    /\ flow.pc \in {"extract", "transform", "validate", "branch", "returned", "raised"}
    /\ flow.attempts \in 0..(extract_retries + 1)
    /\ \A i \in 1..Len(flow.trace) : flow.trace[i] \in Tasks
    /\ flow.result.kind \in {"unset", "None", "str"}
    /\ flow.is_valid.kind \in {"none", "bool", "raise"}

\* The place of a task in the flow.
Rank(task) ==
    CASE task = "extract_data" -> 1
      [] task = "transform_data" -> 2
      [] task = "validate_data" -> 3
      [] task = "load_data" -> 4

\* C20: the tasks of a run of data_pipeline run in the order extract_data
\* (again when it is retried), transform_data, validate_data, load_data;
\* load_data has run, and the flow has returned a path, only if
\* validate_data returned true; if validate_data returned false load_data
\* has not run, no file is under data/processed and the flow, once it has
\* returned, has returned None.
C20_LoadOnlyWhenValid ==
    LET t == flow.trace
        loaded == \E i \in 1..Len(t) : t[i] = "load_data"
    IN  /\ \A i \in 1..Len(t) :
               IF i = 1 THEN t[i] = "extract_data"
               ELSE \/ Rank(t[i]) = Rank(t[i - 1]) + 1
                    \/ t[i] = "extract_data" /\ t[i - 1] = "extract_data"
        /\ loaded => flow.is_valid = Returned(TRUE)
        /\ flow.result.kind = "str" => loaded /\ flow.result.file \in flow.files
        /\ flow.is_valid = Returned(FALSE) =>
               /\ ~loaded
               /\ \A f \in flow.files : f.dir # "data/processed"
               /\ flow.pc = "returned" => flow.result = PyNone

\* C20 witness: after a retry of extract_data the three tasks have run in
\* order, validate_data has returned false and the flow has returned None.
C20_Witness ==
    /\ flow.pc = "returned"
    /\ flow.trace = <<"extract_data", "extract_data", "transform_data", "validate_data">>
    /\ flow.is_valid = Returned(FALSE)
    /\ flow.result = PyNone
    /\ flow.files = {RawFile}

\* A dataframe with rows, the required columns and quantity, no two equal
\* rows, no NaN, no negative total_amount, no quantity <= 0 and sale dates.
CleanFrame(df) ==
    /\ df.rows # <<>>
    /\ {"sale_id", "sale_date", "product_id", "customer_id", "total_amount", "quantity"}
           \subseteq df.columns
    /\ \A i \in 1..Len(df.rows), j \in 1..Len(df.rows) : i < j => df.rows[i] # df.rows[j]
    /\ \A i \in 1..Len(df.rows) :
           /\ \A c \in df.columns : df.rows[i][c] # NaN
           /\ df.rows[i]["total_amount"].n >= 0
           /\ df.rows[i]["quantity"].n > 0

\* C21: once validate_data has been called on a dataframe with rows, all
\* required columns, no duplicate rows, no null cells, no negative
\* total_amount and no quantity <= 0 (its dates then have a minimum not
\* later than their maximum), it has returned true, and the flow, once it
\* has returned, has run load_data and returned its path.
C21_CleanDataPasses ==
    flow.is_valid.kind # "none" /\ CleanFrame(flow.transformed_data) =>
        /\ flow.is_valid = Returned(TRUE)
        /\ flow.pc = "returned" => flow.result.kind = "str"

-----------------------------------------------------------------------------
(* 06-kafka-spark-streaming/app/kafka_producer.py: the generators of sample  *)
(* records and the loop of produce_data.  A random draw is a choice from its *)
(* range, of which the ends (and a value between them) are kept.             *)

\* Iterations of the loop of produce_data that are followed.
MaxIterations == 2

TOPIC_USER_EVENTS == "user_events"
TOPIC_SENSOR_DATA == "sensor_data"
TOPIC_TRANSACTIONS == "transactions"

\* Lines 19-28: the records generate_user_event can return at clock reading now.
generate_user_event(now) ==
    { [user_id |-> Lit(user_id), event_type |-> Str(event),
       timestamp |-> Str(isoformat(now)), page_url |-> Str("/page/1"),
       session_id |-> Str("session_1000")] :
          user_id \in {1, 1000},
          event \in {"page_view", "click", "purchase", "login", "logout"} }

\* A mutation of generate_sensor_data: temperatures are drawn up to 60.
generate_sensor_data_hot(now) ==
    { [sensor_id |-> Str("sensor_1"), temperature |-> temperature,
       humidity |-> humidity, pressure |-> pressure,
       timestamp |-> Str(isoformat(now))] :
          temperature \in {Lit(20), Dec(25, 50), Lit(60)},
          humidity \in {Lit(40), Lit(80)},
          pressure \in {Lit(1000), Lit(1100)} }

\* Lines 30-38.
generate_sensor_data(now) ==
    { [sensor_id |-> Str("sensor_1"), temperature |-> temperature,
       humidity |-> humidity, pressure |-> pressure,
       timestamp |-> Str(isoformat(now))] :
          temperature \in {Lit(20), Dec(25, 50), Lit(30)},
          humidity \in {Lit(40), Lit(80)},
          pressure \in {Lit(1000), Lit(1100)} }

\* Lines 40-49.
generate_transaction(now) ==
    { [transaction_id |-> Str("txn_10000"), user_id |-> Lit(1), amount |-> amount,
       currency |-> Str(currency), merchant |-> Str("merchant_1"),
       timestamp |-> Str(isoformat(now))] :
          amount \in {Lit(10), Lit(1000)},
          currency \in {"USD", "EUR", "GBP"} }

\* The kind of a record, told by the field only its kind has.
KindOf(record) ==
    IF "sensor_id" \in DOMAIN record THEN "sensor_data"
    ELSE IF "transaction_id" \in DOMAIN record THEN "transaction"
    ELSE "user_event"

Message(topic, value) == [topic |-> topic, kind |-> KindOf(value)]

\* A mutation of send: the message is sent twice.
send_twice(p, topic, value) ==
    [p EXCEPT !.sent = Append(Append(@, Message(topic, value)), Message(topic, value)),
              !.last = value]

\* producer.send(topic, value): one more message, to that topic.
send(p, topic, value) ==
    [p EXCEPT !.sent = Append(@, Message(topic, value)), !.last = value]

InitProducer ==
    /\ heap = <<EmptyDict>> /\ before = EmptyDict
    /\ arg = 1
    /\ op = "none"
    /\ ret = NoReturn
    /\ clock = 0
    /\ batch = <<>> /\ agg = "none" /\ summary = NotCalled
    /\ calls = <<>> /\ threads = <<>> /\ flow = <<>>
    /\ pipeline = <<>>
    /\ producer = [pc |-> "user_event", rounds |-> 0, sent |-> <<>>, last |-> EmptyDict,
                   interrupted |-> FALSE, closes |-> 0]

otherThanProducer ==
    <<heap, arg, op, ret, before, batchVars, calls, threads, flow, pipeline>>

\* Lines 56-58: a user event is generated and sent.
SendUserEvent ==
    /\ producer.pc = "user_event"
    /\ producer.rounds < MaxIterations
    /\ \E user_event \in generate_user_event(clock) :
           producer' = [send(producer, TOPIC_USER_EVENTS, user_event)
                            EXCEPT !.pc = "sensor_data"]
    /\ UNCHANGED <<clock, otherThanProducer>>

\* Lines 61-63: a sensor reading is generated and sent.
SendSensorData ==
    /\ producer.pc = "sensor_data"
    /\ \E sensor_data \in generate_sensor_data(clock) :
           producer' = [send(producer, TOPIC_SENSOR_DATA, sensor_data)
                            EXCEPT !.pc = "transaction"]
    /\ UNCHANGED <<clock, otherThanProducer>>

\* Lines 66-68: a transaction is generated and sent.
SendTransaction ==
    /\ producer.pc = "transaction"
    /\ \E transaction \in generate_transaction(clock) :
           producer' = [send(producer, TOPIC_TRANSACTIONS, transaction)
                            EXCEPT !.pc = "sleep"]
    /\ UNCHANGED <<clock, otherThanProducer>>

\* Line 70: time.sleep(2), after which the loop starts over.
Sleep ==
    /\ producer.pc = "sleep"
    /\ producer' = [producer EXCEPT !.pc = "user_event", !.rounds = @ + 1]
    /\ clock' = IF clock < MaxClock THEN clock + 1 ELSE clock
    /\ UNCHANGED otherThanProducer

\* Line 72: the user's Ctrl-C reaches the loop, between any two statements.
KeyboardInterrupt ==
    /\ producer.pc \in {"user_event", "sensor_data", "transaction", "sleep"}
    /\ producer' = [producer EXCEPT !.pc = "except", !.interrupted = TRUE]
    /\ UNCHANGED <<clock, otherThanProducer>>

\* Lines 73-74: producer.close(), and produce_data returns.
Close ==
    /\ producer.pc = "except"
    /\ producer' = [producer EXCEPT !.pc = "returned", !.closes = @ + 1]
    /\ UNCHANGED <<clock, otherThanProducer>>

NextProducer ==
    \/ SendUserEvent
    \/ SendSensorData
    \/ SendTransaction
    \/ Sleep
    \/ KeyboardInterrupt
    \/ Close

SpecProducer == InitProducer /\ [][NextProducer]_vars

ProducerTypeOK ==
    /\ producer.pc \in {"user_event", "sensor_data", "transaction", "sleep", "except",
                         "returned"}
    /\ producer.rounds \in 0..MaxIterations
    /\ Len(producer.sent) <= 3 * MaxIterations
    /\ producer.closes \in 0..1

\* The i-th message of a run: user event, sensor reading, transaction, and
\* over again, each to the topic of its kind.
InTurn(i) ==
    CASE i % 3 = 1 -> [topic |-> TOPIC_USER_EVENTS, kind |-> "user_event"]
      [] i % 3 = 2 -> [topic |-> TOPIC_SENSOR_DATA, kind |-> "sensor_data"]
      [] i % 3 = 0 -> [topic |-> TOPIC_TRANSACTIONS, kind |-> "transaction"]

\* The messages are the three kinds in turn, each on its own topic; the
\* producer is closed at most once, only after a keyboard interrupt, and
\* produce_data returns only so.
SentInTurn ==
    /\ \A i \in 1..Len(producer.sent) : producer.sent[i] = InTurn(i)
    /\ producer.closes <= 1
    /\ producer.closes = 1 => producer.interrupted
    /\ producer.pc = "returned" => producer.interrupted /\ producer.closes = 1

\* C22 as stated: the messages are sent in turn on their topics, the loop
\* ends only by a keyboard interrupt with the producer closed once, and
\* every iteration has sent exactly three messages: when the loop has been
\* left the messages are three for each iteration.
C22_ThreePerIteration ==
    /\ SentInTurn
    /\ producer.pc \in {"sleep", "except", "returned"} => Len(producer.sent) % 3 = 0

\* C22, amended: the messages are sent in turn on their topics; every
\* iteration that reaches its sleep has sent exactly three, and the one a
\* keyboard interrupt arrives in has sent the messages before the interrupt,
\* none to three of them; the loop ends only by the interrupt, the producer
\* is then closed once, and no message is sent after the close.
C22_ThreePerCompleteIteration ==
    /\ [](/\ SentInTurn
          /\ producer.pc = "sleep" => Len(producer.sent) = 3 * (producer.rounds + 1)
          /\ producer.pc = "user_event" => Len(producer.sent) = 3 * producer.rounds
          /\ Len(producer.sent) \in (3 * producer.rounds)..(3 * producer.rounds + 3))
    /\ [][producer.closes >= 1 => producer'.sent = producer.sent]_vars

\* C22 witness: after one whole iteration the interrupt has arrived between
\* the second and the third message of the next one, and the producer has
\* been closed.
C22_Witness ==
    /\ producer.pc = "returned"
    /\ producer.closes = 1
    /\ producer.rounds = 1
    /\ Len(producer.sent) = 5

\* The validator of the records of a kind.
ValidatorOf(kind) ==
    CASE kind = "user_event" -> "validate_user_event"
      [] kind = "sensor_data" -> "validate_sensor_data"
      [] kind = "transaction" -> "validate_transaction"

\* C23: every record the producer generates is accepted by the validator of
\* its kind: the record it sent last, and each record generate_user_event,
\* generate_sensor_data and generate_transaction can return now.
C23_GeneratedRecordsValid ==
    /\ producer.sent # <<>> =>
           validate(ValidatorOf(KindOf(producer.last)), producer.last) = Returned(TRUE)
    /\ \A r \in generate_user_event(clock) : validate_user_event(r) = Returned(TRUE)
    /\ \A r \in generate_sensor_data(clock) : validate_sensor_data(r) = Returned(TRUE)
    /\ \A r \in generate_transaction(clock) : validate_transaction(r) = Returned(TRUE)

\* C23 witness: a sensor reading with the largest temperature and humidity
\* the generator draws has been sent.
C23_Witness ==
    /\ producer.pc = "transaction"
    /\ "temperature" \in DOMAIN producer.last
    /\ producer.last["temperature"] = Lit(30)
    /\ producer.last["humidity"] = Lit(80)

-----------------------------------------------------------------------------
(* The pipeline over a batch of sensor readings: the readings that           *)
(* validate_sensor_data accepts are kept, enrich_sensor_data is applied to   *)
(* each of them and aggregate_sensor_data to the results.  The readings are  *)
(* of the data model's types; some lack a field, some are out of range and   *)
(* one carries a temperature_alert of its own.                               *)

Reading(temperature, humidity) ==
    [sensor_id |-> Str("sensor_1"), temperature |-> temperature, humidity |-> humidity,
     pressure |-> Dec(1013, 25), timestamp |-> Str("2024-01-01T00:00:00")]

PipelineReadings ==
    { Reading(t, Lit(50)) : t \in {Lit(-1), Lit(3), Lit(5), Lit(30), Lit(35), Lit(36),
                                   Lit(50), Lit(60)} }
        \cup { Reading(Lit(30), Lit(101)),
               DelItem(Reading(Lit(40), Lit(50)), "pressure"),
               SetItem(Reading(Lit(30), Lit(50)), "temperature_alert", Bool(TRUE)) }

InitPipeline ==
    /\ heap = <<EmptyDict>> /\ before = EmptyDict
    /\ arg = 1
    /\ op = "none"
    /\ ret = NoReturn
    /\ clock = 0
    /\ batch = <<>> /\ agg = "none" /\ summary = NotCalled
    /\ calls = <<>> /\ threads = <<>> /\ flow = <<>>
    /\ producer = <<>>
    /\ pipeline = [stage |-> "receive", readings |-> <<>>, accepted |-> <<>>,
                   enriched |-> <<>>, summary |-> NotCalled]

otherThanPipeline ==
    <<recordVars, batchVars, calls, threads, flow, producer>>

\* One more reading arrives.
Receive ==
    /\ pipeline.stage = "receive"
    /\ Len(pipeline.readings) < MaxBatch
    /\ \E r \in PipelineReadings :
           pipeline' = [pipeline EXCEPT !.readings = Append(@, r)]
    /\ UNCHANGED otherThanPipeline

\* The readings validate_sensor_data accepts are kept.
ValidateBatch ==
    /\ pipeline.stage = "receive"
    /\ LET Accepted(r) == validate_sensor_data(r) = Returned(TRUE)
       IN  pipeline' = [pipeline EXCEPT !.accepted = SelectSeq(pipeline.readings, Accepted),
                                        !.stage = "enrich"]
    /\ UNCHANGED otherThanPipeline

\* enrich_sensor_data is applied to each accepted reading.
EnrichBatch ==
    /\ pipeline.stage = "enrich"
    /\ pipeline' = [pipeline EXCEPT
           !.enriched = [i \in 1..Len(pipeline.accepted) |-> Enriched(pipeline.accepted[i])],
           !.stage = "aggregate"]
    /\ UNCHANGED otherThanPipeline

\* aggregate_sensor_data is called on the enriched readings.
AggregateBatch ==
    /\ pipeline.stage = "aggregate"
    /\ pipeline' = [pipeline EXCEPT !.summary = aggregate_sensor_data(pipeline.enriched),
                                    !.stage = "done"]
    /\ UNCHANGED otherThanPipeline

\* The next batch begins.
NextBatchBegins ==
    /\ pipeline.stage = "done"
    /\ pipeline' = [stage |-> "receive", readings |-> <<>>, accepted |-> <<>>,
                    enriched |-> <<>>, summary |-> NotCalled]
    /\ UNCHANGED otherThanPipeline

NextPipeline ==
    \/ Receive
    \/ ValidateBatch
    \/ EnrichBatch
    \/ AggregateBatch
    \/ NextBatchBegins

SpecPipeline == InitPipeline /\ [][NextPipeline]_vars

PipelineTypeOK ==
    /\ pipeline.stage \in {"receive", "enrich", "aggregate", "done"}
    /\ Len(pipeline.readings) <= MaxBatch
    /\ Len(pipeline.accepted) <= Len(pipeline.readings)
    /\ pipeline.summary.kind \in {"none", "dict", "raise"}

\* The readings of the batch that are valid: all five fields, temperature in
\* 0..50 and humidity in 0..100.
ValidIndices ==
    {i \in 1..Len(pipeline.readings) :
        /\ {"sensor_id", "temperature", "humidity", "pressure", "timestamp"}
               \subseteq DOMAIN pipeline.readings[i]
        /\ Within(pipeline.readings[i]["temperature"], 0, 50)
        /\ Within(pipeline.readings[i]["humidity"], 0, 100)}

\* total_readings is the number of valid readings of the batch and alerts
\* the number of its valid readings with a temperature above 35 or below 5.
CountsValidReadings ==
    /\ pipeline.summary.kind = "dict"
    /\ DOMAIN pipeline.summary.value =
           {"total_readings", "avg_temperature", "avg_humidity", "avg_pressure",
            "max_temperature", "min_temperature", "alerts"}
    /\ pipeline.summary.value.total_readings = Cardinality(ValidIndices)
    /\ pipeline.summary.value.alerts =
           Cardinality({i \in ValidIndices :
               \/ pipeline.readings[i]["temperature"].n > 35 * Scale
               \/ pipeline.readings[i]["temperature"].n < 5 * Scale})

\* C24 as stated: whatever batch has gone through validate, enrich and
\* aggregate, total_readings is the number of accepted readings and alerts
\* the number of accepted readings with a temperature above 35 or below 5.
C24_EveryBatch ==
    pipeline.stage = "done" => CountsValidReadings

\* C24, amended: that holds of every batch with at least one valid reading;
\* a batch without one gives the empty summary, which has neither value.
C24_PipelineAlerts ==
    pipeline.stage = "done" =>
        IF ValidIndices # {} THEN CountsValidReadings
        ELSE pipeline.summary = ReturnedDict(EmptyDict)

\* C24 witness: of three readings, one at 36 degrees, one at 60 degrees and
\* one at 30 degrees that came with temperature_alert set, two have been
\* accepted and one alert counted.
C24_Witness ==
    /\ pipeline.stage = "done"
    /\ Len(pipeline.readings) = 3
    /\ \E i \in 1..3 : pipeline.readings[i] = Reading(Lit(36), Lit(50))
    /\ \E i \in 1..3 : pipeline.readings[i] = Reading(Lit(60), Lit(50))
    /\ \E i \in 1..3 : "temperature_alert" \in DOMAIN pipeline.readings[i]
    /\ pipeline.summary.kind = "dict"
    /\ "alerts" \in DOMAIN pipeline.summary.value
    /\ pipeline.summary.value.total_readings = 2
    /\ pipeline.summary.value.alerts = 1

-----------------------------------------------------------------------------
(* Further properties of the enrichers, under Spec.                          *)

\* C25: in every record enrich_transaction returns, fraud_risk high or medium
\* goes with transaction_category large, and transaction_category small or
\* medium goes with fraud_risk low; no record is small and high.
C25_CategoryAndRiskAgree ==
    op = "enrich_transaction" /\ ret.kind = "ref" =>
        /\ {"transaction_category", "fraud_risk"} \subseteq DOMAIN Result
        /\ Result["fraud_risk"] \in {Str("high"), Str("medium")}
               => Result["transaction_category"] = Str("large")
        /\ Result["transaction_category"] \in {Str("small"), Str("medium")}
               => Result["fraud_risk"] = Str("low")
        /\ ~(Result["transaction_category"] = Str("small")
                 /\ Result["fraud_risk"] = Str("high"))

\* C25 witness: an amount just above 500 has been rated large and medium
\* risk.
C25_Witness ==
    /\ op = "enrich_transaction"
    /\ ret.kind = "ref"
    /\ "amount" \in DOMAIN before
    /\ before["amount"] = Dec(500, 1)
    /\ Result["transaction_category"] = Str("large")
    /\ Result["fraud_risk"] = Str("medium")

-----------------------------------------------------------------------------
(* Consistency of the summaries, under SpecBatch.                            *)

\* C27: in the summary aggregate_user_events returns for a non-empty list the
\* values of event_type_counts add up to total_events, active_users lies
\* between 1 and total_events, and avg_events_per_user is a quotient of at
\* least 1, never the fallback 0: events without user_id count as one user.
C27_UserSummaryConsistent ==
    agg = "aggregate_user_events" /\ batch # <<>> =>
        /\ summary.kind = "dict"
        /\ DOMAIN summary.value =
               {"total_events", "event_type_counts", "active_users", "avg_events_per_user"}
        /\ SumOver(DOMAIN summary.value.event_type_counts, summary.value.event_type_counts)
               = summary.value.total_events
        /\ 1 <= summary.value.active_users
        /\ summary.value.active_users <= summary.value.total_events
        /\ summary.value.avg_events_per_user.den >= 1
        /\ summary.value.avg_events_per_user.num >= summary.value.avg_events_per_user.den

\* C27 witness: two events, neither with a user_id, have been aggregated:
\* one active user, two events per user.
C27_Witness ==
    /\ agg = "aggregate_user_events"
    /\ Len(batch) = 2
    /\ \A i \in Indices : "user_id" \notin DOMAIN batch[i]
    /\ summary.kind = "dict"
    /\ "active_users" \in DOMAIN summary.value
    /\ summary.value.active_users = 1
    /\ summary.value.avg_events_per_user = Ratio(2, 1)

-----------------------------------------------------------------------------
(* The aggregation machine on numbers that fill the significand of a float: *)
(* the caller collects records whose amounts and temperatures are as far     *)
(* apart as the significand is wide, so that an addition can round.          *)

\* The smallest number from which on neighbouring floats are 2 / Scale apart.
Wide == 2 ^ Precision

WideUserEvents ==
    { MakeDict(f) : f \in
        { [user_id |-> Lit(1), event_type |-> Str("a")],
          [user_id |-> Absent, event_type |-> Str("b")] } }

WideReadings ==
    { MakeDict(f) : f \in
        { [temperature |-> Num(Wide), humidity |-> Lit(50), pressure |-> Lit(1000),
           temperature_alert |-> Bool(TRUE)],
          [temperature |-> Num(1), humidity |-> Lit(50), pressure |-> Num(Wide),
           temperature_alert |-> Absent],
          [temperature |-> Num(1), humidity |-> Num(1), pressure |-> Absent,
           temperature_alert |-> Bool(FALSE)] } }

WideTransactions ==
    { MakeDict(f) : f \in
        { [amount |-> Num(Wide), currency |-> Str("USD"), merchant |-> Str("merchant_1")],
          [amount |-> Num(1), currency |-> Str("USD"), merchant |-> Str("merchant_2")],
          [amount |-> Num(1), currency |-> Str("EUR"), merchant |-> Absent],
          [amount |-> Absent, currency |-> Absent, merchant |-> Str("merchant_1")] } }

WideRecords == WideUserEvents \cup WideReadings \cup WideTransactions

\* One more record is put at the end of the list.
CollectWide ==
    /\ agg = "none"
    /\ Len(batch) < MaxBatch
    /\ \E r \in WideRecords : batch' = Append(batch, r)
    /\ UNCHANGED <<agg, summary, otherThanBatch>>

NextOrder ==
    \/ CollectWide
    \/ AggregateUserEvents
    \/ AggregateSensorData
    \/ AggregateTransactions
    \/ Discard

SpecOrder == InitBatch /\ [][NextOrder]_vars

\* [t.get('amount', 0) for t in transactions] of the list that was aggregated
AmountsOfBatch == Column(batch, "amount")

\* The sum of the values of a mapping to numbers, in units of 1/Scale.
ValueSum(d) == SumOver(DOMAIN d, [k \in DOMAIN d |-> d[k].n])

Magnitude(x) == IF x < 0 THEN 0 - x ELSE x

\* How far two float sums of the numbers in values can be apart: each of the
\* additions is off by at most half the distance between neighbouring floats
\* of the size of the sum.
Rounding(values) ==
    Len(values) * Spacing(SumOver(1..Len(values),
                                  [i \in 1..Len(values) |-> Magnitude(values[i].n)]))

\* The parts of C26 that hold as claimed: merchant_counts adds up to
\* total_transactions, and min_transaction <= max_transaction.
CountsAndBoundsConsistent ==
    /\ summary.kind = "dict"
    /\ {"total_transactions", "total_amount", "currency_totals", "merchant_counts",
        "max_transaction", "min_transaction"} \subseteq DOMAIN summary.value
    /\ SumOver(DOMAIN summary.value.merchant_counts, summary.value.merchant_counts)
           = summary.value.total_transactions
    /\ summary.value.min_transaction.n <= summary.value.max_transaction.n

\* C26 (as claimed): in the summary aggregate_transactions returns for a
\* non-empty list the values of currency_totals add up to total_amount, the
\* values of merchant_counts add up to total_transactions, and
\* min_transaction <= max_transaction, both being amounts of transactions of
\* the list.
C26_SummaryConsistent ==
    agg = "aggregate_transactions" /\ batch # <<>> =>
        /\ CountsAndBoundsConsistent
        /\ ValueSum(summary.value.currency_totals) = summary.value.total_amount.n
        /\ \E i \in Indices : /\ "amount" \in DOMAIN batch[i]
                               /\ batch[i]["amount"] = summary.value.max_transaction
        /\ \E i \in Indices : /\ "amount" \in DOMAIN batch[i]
                               /\ batch[i]["amount"] = summary.value.min_transaction

\* C26 (amended): the values of merchant_counts add up to
\* total_transactions, and min_transaction <= max_transaction, both being
\* among the amounts of the list when a transaction without amount is taken
\* to have the amount 0; the values of currency_totals add up to
\* total_amount up to the rounding of the float additions, and exactly when
\* the list holds a single transaction.
C26_SummaryConsistentUpToRounding ==
    agg = "aggregate_transactions" /\ batch # <<>> =>
        /\ CountsAndBoundsConsistent
        /\ Magnitude(ValueSum(summary.value.currency_totals) - summary.value.total_amount.n)
               <= Rounding(AmountsOfBatch)
        /\ Len(batch) = 1 =>
               ValueSum(summary.value.currency_totals) = summary.value.total_amount.n
        /\ \E i \in Indices : AmountsOfBatch[i] = summary.value.max_transaction
        /\ \E i \in Indices : AmountsOfBatch[i] = summary.value.min_transaction

\* C26 witness: two small amounts in two currencies and a wide amount have
\* been aggregated: the total holds both small amounts, the currency totals
\* hold one of them.
C26_Witness ==
    /\ agg = "aggregate_transactions"
    /\ Len(batch) = 3
    /\ summary.kind = "dict"
    /\ "total_amount" \in DOMAIN summary.value
    /\ summary.value.total_amount = Num(Wide + 2)
    /\ DOMAIN summary.value.currency_totals = {Str("USD"), Str("EUR")}
    /\ summary.value.currency_totals[Str("USD")] = Num(Wide)
    /\ summary.value.currency_totals[Str("EUR")] = Num(1)
    /\ summary.value.merchant_counts[Str("unknown")] = 1

\* The list that was aggregated, its records in the order p.
Reordered(p) == [i \in Indices |-> batch[p[i]]]

\* Two float sums of the same numbers, or their quotients by the same count.
SameUpToRounding(a, b, values) ==
    IF "den" \in DOMAIN a
    THEN a.den = b.den /\ Magnitude(a.num - b.num) <= Rounding(values)
    ELSE IsNumber(a) /\ IsNumber(b) /\ Magnitude(a.n - b.n) <= Rounding(values)

\* C28 (as claimed): an aggregate function returns an equal summary for
\* every reordering of the list it was called on.
C28_OrderIndependent ==
    agg \in Aggregators /\ batch # <<>> =>
        \A p \in Permutations(Indices) : aggregate(agg, Reordered(p)) = summary

\* C28 (amended): for every reordering of the list aggregate_user_events
\* returns an equal summary; aggregate_sensor_data and
\* aggregate_transactions return summaries with the same keys and with equal
\* counts, equal max/min, equal merchant_counts and the same currencies, while
\* the sums and the means (avg_temperature, avg_humidity, avg_pressure,
\* total_amount, avg_amount, the values of currency_totals) are equal up to
\* the rounding of the float additions.
C28_OrderIndependentUpToRounding ==
    agg \in Aggregators /\ batch # <<>> =>
        \A p \in Permutations(Indices) :
            LET other == aggregate(agg, Reordered(p))
                s == summary.value
                o == other.value
                same(keys) == \A k \in keys : o[k] = s[k]
                close(k, field) == SameUpToRounding(o[k], s[k], Column(batch, field))
            IN  /\ summary.kind = "dict" /\ other.kind = "dict"
                /\ DOMAIN o = DOMAIN s
                /\ agg = "aggregate_user_events" => other = summary
                /\ agg = "aggregate_sensor_data" =>
                       /\ same({"total_readings", "max_temperature", "min_temperature",
                                "alerts"})
                       /\ close("avg_temperature", "temperature")
                       /\ close("avg_humidity", "humidity")
                       /\ close("avg_pressure", "pressure")
                /\ agg = "aggregate_transactions" =>
                       /\ same({"total_transactions", "merchant_counts", "max_transaction",
                                "min_transaction"})
                       /\ close("total_amount", "amount")
                       /\ close("avg_amount", "amount")
                       /\ DOMAIN o.currency_totals = DOMAIN s.currency_totals
                       /\ \A c \in DOMAIN s.currency_totals :
                              SameUpToRounding(o.currency_totals[c], s.currency_totals[c],
                                               AmountsOfBatch)

\* C28 witness: a wide amount followed by two small ones has been summed to
\* the wide amount, and the same transactions with the small amounts first
\* sum to more; the other values of the summary are the same.
C28_Witness ==
    /\ agg = "aggregate_transactions"
    /\ Len(batch) = 3
    /\ summary.kind = "dict"
    /\ "total_amount" \in DOMAIN summary.value
    /\ summary.value.total_amount = Num(Wide)
    /\ \E p \in Permutations(Indices) :
           LET other == aggregate(agg, Reordered(p))
           IN  /\ other.value.total_amount = Num(Wide + 2)
               /\ other.value.max_transaction = summary.value.max_transaction
               /\ other.value.merchant_counts = summary.value.merchant_counts

-----------------------------------------------------------------------------
(* Further properties of the enrichers, under Spec: a second enrichment, and *)
(* records that lack the field a derived value is computed from.             *)

\* C29: enriching the record an enricher returned with the same enricher,
\* at whatever time, returns a record with the same keys and, but for
\* processed_at, the same values; and a call that was made on a record the
\* same enricher had returned before has changed nothing but processed_at.
C29_IdempotentButForTimestamp ==
    op \in Enrichers /\ ret.kind = "ref" =>
        /\ \A now \in 0..MaxClock :
               LET again == enrich(op, heap, ret.ref, now)
                   twice == again.heap[again.ret.ref]
               IN  /\ again.ret.kind = "ref"
                   /\ DOMAIN twice = DOMAIN Result
                   /\ \A k \in DOMAIN Result \ {"processed_at"} : twice[k] = Result[k]
                   /\ twice["processed_at"] = Str(isoformat(now))
        /\ \A then \in 0..clock :
               LET first == enrich(op, <<heap[1]>>, 1, then)
               IN  arg > 1 /\ first.ret.kind = "ref" /\ first.heap[first.ret.ref] = before
                   => /\ DOMAIN Result = DOMAIN before
                      /\ \A k \in DOMAIN before \ {"processed_at"} : Result[k] = before[k]

\* C29 witness: a reading of 30 degrees and 50 % that enrich_sensor_data had
\* returned with a heat index of 55 has been enriched again at a later time:
\* the heat index is 55 still, processed_at is the later time.
C29_Witness ==
    /\ op = "enrich_sensor_data"
    /\ ret.kind = "ref"
    /\ arg > 1
    /\ LET first == enrich(op, <<heap[1]>>, 1, 0)
       IN  first.ret.kind = "ref" /\ first.heap[first.ret.ref] = before
    /\ "temperature" \in DOMAIN before /\ before["temperature"] = Lit(30)
    /\ "humidity" \in DOMAIN before /\ before["humidity"] = Lit(50)
    /\ before["heat_index"] = Lit(55)
    /\ Result["heat_index"] = Lit(55)
    /\ before["processed_at"] = Str(isoformat(0))
    /\ Result["processed_at"] = Str(isoformat(1))

\* C30: an enricher called on a record that lacks the field it reads takes
\* the field to be 0 and returns: enrich_user_event without user_id gives the
\* segment premium; enrich_sensor_data without temperature and humidity
\* gives a heat index of 0 and both alerts true; enrich_transaction without
\* amount gives the category small and the risk low.  The validator of the
\* kind rejects each of these records; the enricher does not ask it.
C30_AbsentFieldIsZero ==
    /\ op = "enrich_user_event" /\ "user_id" \notin DOMAIN before =>
           /\ ret.kind = "ref"
           /\ Result["user_segment"] = Str("premium")
           /\ validate_user_event(before) = Returned(FALSE)
    /\ op = "enrich_sensor_data" /\ DOMAIN before \cap {"temperature", "humidity"} = {} =>
           /\ ret.kind = "ref"
           /\ Result["heat_index"] = Lit(0)
           /\ Result["temperature_alert"] = Bool(TRUE)
           /\ Result["humidity_alert"] = Bool(TRUE)
           /\ validate_sensor_data(before) = Returned(FALSE)
    /\ op = "enrich_transaction" /\ "amount" \notin DOMAIN before =>
           /\ ret.kind = "ref"
           /\ Result["transaction_category"] = Str("small")
           /\ Result["fraud_risk"] = Str("low")
           /\ validate_transaction(before) = Returned(FALSE)

\* C30 witness: a transaction that has every field but amount has been
\* enriched to a small transaction of low risk.
C30_Witness ==
    /\ op = "enrich_transaction"
    /\ ret.kind = "ref"
    /\ DOMAIN before = {"transaction_id", "user_id", "currency", "merchant", "timestamp"}
    /\ Result["transaction_category"] = Str("small")
    /\ Result["fraud_risk"] = Str("low")

=============================================================================
